---- MODULE Spec2Model ----
(***************************************************************************)
(* Newsbot: the article scraper (src/src/article_scraper.py), the         *)
(* workflow that calls it (src/main.py, src/src/rss_processor.py,          *)
(* src/src/storage.py, src/src/output_queue.py) and the Twitter client     *)
(* (src/src/twitter_client.py).                                            *)
(*                                                                         *)
(* Texts, attribute values and URLs are TLA+ strings, handled character by *)
(* character as the Python code handles them.  A parsed page (the soup) is *)
(* a record of its meta tags, its content containers and its img tags,     *)
(* each a sequence in document order.                                      *)
(***************************************************************************)
EXTENDS Integers, Sequences, FiniteSets, TLC

VARIABLES
    pc,               \* position in scrape_article / _extract_content / _extract_image
    article_url,      \* argument of scrape_article
    rss_image,        \* argument of scrape_article (None when the feed gave none)
    response,         \* what requests.get will answer: whether it succeeds, and the page
    soup,             \* the parsed page (NoSoup before the fetch)
    sel_i,            \* loop index over content_selectors / image_selectors / imgs
    content,          \* local variable `content` of _extract_content
    extracted_image,  \* value returned by _extract_image
    img_tier,         \* which return statement of _extract_image was taken
    result,           \* the dict scrape_article returns
    is_thumbnail,     \* value returned by _is_thumbnail_url called on its own
    wpc,              \* position in run_workflow / send_to_webhook ("idle": not running)
    env,              \* what the outside answers during the run: the feeds, the
                      \* rewriting service, the database, the webhook
    config,           \* config['output']: webhook_url, include_original
    article,          \* local `article` of run_workflow
    articles,         \* the rows of the articles table, by id
    processing_log,   \* the rows written to the processing_log table since the run began
    errors,           \* local `errors` of run_workflow
    new_count,        \* local `new_count`
    processed_count,  \* local `processed_count`
    scraped,          \* local `scraped`
    rewrites,         \* the article_url of every row handed to rewrite_article, in order
    ready_articles,   \* local `ready_articles`; argument of send_to_webhook
    success,          \* value returned by send_to_webhook
    posts,            \* the bodies of the requests.post calls made, in order
    files,            \* the contents of the files written, in order
    tpc,              \* position in TwitterClient.post_tweet ("idle": not called)
    session,          \* whether self._session is set
    tweet_text,       \* local `text` of post_tweet
    api,              \* what the two Twitter endpoints answer to a POST
    requests,         \* the POST requests sent, each with what its attempt returned
    tweet_result      \* value returned by post_tweet

\* the variables of run_workflow and of the output queue
workflow_vars == <<wpc, env, config, article, articles, processing_log, errors,
                   new_count, processed_count, scraped, rewrites, ready_articles,
                   success, posts, files>>

\* the variables of the Twitter client
twitter_vars == <<tpc, session, tweet_text, api, requests, tweet_result>>

\* what the steps of scrape_article leave alone
outside_scraper == <<is_thumbnail, workflow_vars, twitter_vars>>

vars == <<pc, article_url, rss_image, response, soup, sel_i, content,
          extracted_image, img_tier, result, outside_scraper>>

(***************************************************************************)
(* Python values                                                           *)
(***************************************************************************)
\* Python's None; also the value of tag.get(attr) for a missing attribute.
None == "<None>"

\* no call of post_tweet is under way
TwitterIdle ==
    /\ tpc = "idle"
    /\ session = FALSE
    /\ tweet_text = ""
    /\ api = None
    /\ requests = <<>>
    /\ tweet_result = None

\* Truth value of an optional string: `if x:` is false for None and for ''.
Truthy(v) == v # None /\ v # ""

\* a or b  on optional strings
Or2(a, b) == IF Truthy(a) THEN a ELSE b

\* a or b or c  on optional strings
Or3(a, b, c) == IF Truthy(a) THEN a ELSE IF Truthy(b) THEN b ELSE c

Char(s, i) == SubSeq(s, i, i)

\* sub in s
Contains(s, sub) ==
    \E i \in 1..(Len(s) - Len(sub) + 1) : SubSeq(s, i, i + Len(sub) - 1) = sub

StartsWith(s, p) == Len(s) >= Len(p) /\ SubSeq(s, 1, Len(p)) = p

Digits == {"0", "1", "2", "3", "4", "5", "6", "7", "8", "9"}

\* characters str.strip() removes
Whitespace == {" ", "\t", "\n", "\r", "\f"}

UpperLetters == "ABCDEFGHIJKLMNOPQRSTUVWXYZ"
LowerLetters == "abcdefghijklmnopqrstuvwxyz"

LowerChar(c) ==
    IF \E i \in 1..Len(UpperLetters) : Char(UpperLetters, i) = c
    THEN Char(LowerLetters, CHOOSE i \in 1..Len(UpperLetters) : Char(UpperLetters, i) = c)
    ELSE c

RECURSIVE LowerFrom(_, _)
LowerFrom(s, i) == IF i > Len(s) THEN "" ELSE LowerChar(Char(s, i)) \o LowerFrom(s, i + 1)

\* str.lower()
Lower(s) == LowerFrom(s, 1)

\* str.strip()
Strip(s) ==
    LET keep == {i \in 1..Len(s) : Char(s, i) \notin Whitespace}
    IN  IF keep = {} THEN ""
        ELSE SubSeq(s, CHOOSE i \in keep : \A j \in keep : i <= j,
                       CHOOSE i \in keep : \A j \in keep : j <= i)

\* str.split('\n'): the pieces between newlines, empty pieces included
SplitLines(s) ==
    LET cuts == {0} \cup {i \in 1..Len(s) : Char(s, i) = "\n"} \cup {Len(s) + 1}
        Nth(k) == CHOOSE c \in cuts : Cardinality({d \in cuts : d < c}) = k - 1
    IN  [k \in 1..(Cardinality(cuts) - 1) |-> SubSeq(s, Nth(k) + 1, Nth(k + 1) - 1)]

RECURSIVE Join(_, _)
\* sep.join(parts)
Join(sep, parts) ==
    IF parts = <<>> THEN ""
    ELSE IF Len(parts) = 1 THEN parts[1]
    ELSE parts[1] \o sep \o Join(sep, Tail(parts))

(***************************************************************************)
(* _extract_content: the clean-up step                                     *)
(***************************************************************************)
\* faulty variant: empty lines are not dropped
CleanUpKeepEmpty(text) ==
    IF Truthy(text)
    THEN Join("\n\n", [k \in 1..Len(SplitLines(text)) |-> Strip(SplitLines(text)[k])])
    ELSE text

\* lines = [line.strip() for line in content.split('\n') if line.strip()]
\* content = '\n\n'.join(lines)
CleanUp(text) ==
    IF Truthy(text)
    THEN LET raw == SplitLines(text)
             stripped == [k \in 1..Len(raw) |-> Strip(raw[k])]
             NonEmpty(line) == line # ""
         IN  Join("\n\n", SelectSeq(stripped, NonEmpty))
    ELSE text

(***************************************************************************)
(* URLs: urllib.parse.urljoin, re.sub, int()                               *)
(***************************************************************************)
Letters == {Char(UpperLetters, i) : i \in 1..Len(UpperLetters)}
               \cup {Char(LowerLetters, i) : i \in 1..Len(LowerLetters)}

SchemeChars == Letters \cup Digits \cup {"+", "-", "."}

\* index of the first occurrence of the character c in s at or after i, 0 if none
IndexFrom(s, c, i) ==
    LET hits == {j \in i..Len(s) : Char(s, j) = c}
    IN  IF hits = {} THEN 0 ELSE CHOOSE j \in hits : \A k \in hits : j <= k

\* urlsplit(url).scheme is non-empty: a letter, then scheme characters, then ':'
HasScheme(url) ==
    LET colon == IndexFrom(url, ":", 1)
    IN  /\ colon > 1
        /\ Char(url, 1) \in Letters
        /\ \A j \in 1..(colon - 1) : Char(url, j) \in SchemeChars

Scheme(url) == SubSeq(url, 1, IndexFrom(url, ":", 1) - 1)

\* scheme://netloc of an absolute URL written scheme://netloc[/path]
Origin(url) ==
    LET start == IndexFrom(url, ":", 1) + 3
        slash == IndexFrom(url, "/", start)
    IN  IF slash = 0 THEN url ELSE SubSeq(url, 1, slash - 1)

\* the path of an absolute URL up to and including its last '/'
BaseDir(url) ==
    LET path == SubSeq(url, Len(Origin(url)) + 1, Len(url))
        slashes == {j \in 1..Len(path) : Char(path, j) = "/"}
    IN  IF slashes = {} THEN "/"
        ELSE SubSeq(path, 1, CHOOSE j \in slashes : \A k \in slashes : k <= j)

\* urljoin(base, url) for an absolute http(s) base without query or fragment
\* and a reference without dot segments, query or fragment
urljoin(base, url) ==
    IF url = "" THEN base
    ELSE IF HasScheme(url) THEN url
    ELSE IF StartsWith(url, "//") THEN Scheme(base) \o ":" \o url
    ELSE IF StartsWith(url, "/") THEN Origin(base) \o url
    ELSE Origin(base) \o BaseDir(base) \o url

\* length of the run of digits of s that starts at i
DigitRun(s, i) ==
    LET stop == {j \in i..(Len(s) + 1) : j = Len(s) + 1 \/ Char(s, j) \notin Digits}
    IN  (CHOOSE j \in stop : \A k \in stop : j <= k) - i

\* length of the match of /w\d+/ at position i of s, 0 if none
MatchWidthSegment(s, i) ==
    LET n == DigitRun(s, i + 2)
    IN  IF /\ Char(s, i) = "/"
           /\ i + 1 <= Len(s) /\ Char(s, i + 1) = "w"
           /\ n >= 1
           /\ i + 2 + n <= Len(s) /\ Char(s, i + 2 + n) = "/"
        THEN n + 3 ELSE 0

\* length of the match of -\d+x\d+\. at position i of s, 0 if none
MatchDimensionSuffix(s, i) ==
    LET n == DigitRun(s, i + 1)
        m == DigitRun(s, i + 2 + n)
    IN  IF /\ Char(s, i) = "-"
           /\ n >= 1
           /\ i + 1 + n <= Len(s) /\ Char(s, i + 1 + n) = "x"
           /\ m >= 1
           /\ i + 2 + n + m <= Len(s) /\ Char(s, i + 2 + n + m) = "."
        THEN n + m + 3 ELSE 0

\* length of the match of pattern at position i of s, 0 if none
MatchLen(pattern, s, i) ==
    IF pattern = "/w\\d+/" THEN MatchWidthSegment(s, i) ELSE MatchDimensionSuffix(s, i)

RECURSIVE ReSubFrom(_, _, _, _)
\* re.sub: every non-overlapping match, left to right, replaced by repl
ReSubFrom(pattern, repl, s, i) ==
    IF i > Len(s) THEN ""
    ELSE IF MatchLen(pattern, s, i) > 0
         THEN repl \o ReSubFrom(pattern, repl, s, i + MatchLen(pattern, s, i))
    ELSE Char(s, i) \o ReSubFrom(pattern, repl, s, i + 1)

\* re.sub(r'/w\d+/', '/', url)
RemoveWidthSegments(url) == ReSubFrom("/w\\d+/", "/", url, 1)

\* re.sub(r'-\d+x\d+\.', '.', url)
StripDimensionSuffix(url) == ReSubFrom("-\\d+x\\d+\\.", ".", url, 1)

\* raised by int()
ValueError == -1

RECURSIVE DigitsValue(_, _)
DigitsValue(s, n) ==
    IF n = 0 THEN 0
    ELSE 10 * DigitsValue(s, n - 1)
         + (CHOOSE d \in 0..9 : Char("0123456789", d + 1) = Char(s, n))

\* int(text) for the widths a page declares (unsigned): surrounding whitespace
\* is ignored, anything else than digits raises ValueError
int(text) ==
    LET s == Strip(text)
    IN  IF s # "" /\ \A j \in 1..Len(s) : Char(s, j) \in Digits
        THEN DigitsValue(s, Len(s))
        ELSE ValueError

(***************************************************************************)
(* The tables of article_scraper.py                                        *)
(***************************************************************************)
\* tags scrape_article decomposes before extracting
boilerplate_tags ==
    {"script", "style", "nav", "header", "footer", "aside", "iframe", "noscript", "form"}

content_selectors ==
    << "article .article-content", "article .post-content", "article .entry-content",
       ".article-body", ".post-body", ".story-content", ".news-content", "article",
       ".post-content", ".entry-content", "main article", "main .content",
       ".content-area", "main" >>

thumbnail_indicators ==
    << "/w150/", "/w200/", "/w300/", "/h150/", "/h200/", "/h300/",
       "-150x", "-200x", "-300x", "_thumb", "_small", "_tiny",
       "/thumb/", "/thumbs/", "/small/", "/preview/",
       "resize=", "width=150", "width=200" >>

image_selectors ==
    << "img.article-image", "img.featured-image", "img.wp-post-image",
       "article img:first-of-type", ".post-content img:first-of-type",
       "main img:first-of-type", ".content img:first-of-type" >>

skip_keywords == << "logo", "icon", "avatar", "button", "ad", "banner", "sponsor", "pixel" >>

\* "at least 200 chars": len(content) > 200
MinContentLen == 200

\* selector tier: int(width) > 200
SelectorMinWidth == 200

\* brute-force tier: int(width) > 300
BruteMinWidth == 300

(***************************************************************************)
(* The parsed page.  A node records what the code reads of it:             *)
(*   meta: its property, name and content attributes (None when missing);  *)
(*   elem: the content selectors that match it, the get_text(strip=True)   *)
(*         of each p/h1..h6 inside it, its get_text(separator='\n',        *)
(*         strip=True);                                                    *)
(*   img:  the image selectors that match it and its src, data-src,        *)
(*         data-lazy-src and width attributes;                             *)
(*   tag:  for elem and img, the tag of the outermost node around it that  *)
(*         scrape_article decomposes, "" when there is none;               *)
(*   inner: for elem, the get_text(strip=True) of each p/h1..h6 that lies  *)
(*         in a decomposed node inside the container, behind the           *)
(*         container's own (paras and text are what the container holds    *)
(*         outside such nodes).                                            *)
(***************************************************************************)
Meta(property, name, cont) == [property |-> property, name |-> name, content |-> cont]

Elem(sels, paras, text, tag) ==
    [sels |-> sels, paras |-> paras, text |-> text, tag |-> tag, inner |-> <<>>]

\* a container with an aside, nav, form, ... inside it
ElemAround(sels, paras, text, inner) ==
    [sels |-> sels, paras |-> paras, text |-> text, tag |-> "", inner |-> inner]

Img(sels, src, data_src, data_lazy_src, width, tag) ==
    [sels |-> sels, src |-> src, data_src |-> data_src,
     data_lazy_src |-> data_lazy_src, width |-> width, tag |-> tag]

\* the first of the indices hits (document order), 0 if there is none
FirstIndex(hits) ==
    IF hits = {} THEN 0 ELSE CHOOSE i \in hits : \A j \in hits : i <= j

\* soup.select_one(selector) among nodes: index of the first match, 0 for None
select_one(nodes, selector) ==
    FirstIndex({i \in DOMAIN nodes : selector \in nodes[i].sels})

\* faulty variant: the tag is looked up by its name attribute
find_og_image_by_name(metas) ==
    FirstIndex({i \in DOMAIN metas : metas[i].name = "og:image"})

\* soup.find('meta', property='og:image')
find_og_image(metas) ==
    FirstIndex({i \in DOMAIN metas : metas[i].property = "og:image"})

\* soup.find('meta', attrs={'name': 'twitter:image'})
find_twitter_image(metas) ==
    FirstIndex({i \in DOMAIN metas : metas[i].name = "twitter:image"})

\* faulty variant: nothing is removed
DecomposeNothing(page) == page

\* for element in soup([...]): element.decompose()
Decompose(page) ==
    LET Kept(n) == n.tag \notin boilerplate_tags
        kept_elems == SelectSeq(page.elems, Kept)
    IN  [page EXCEPT
            !.elems = [k \in DOMAIN kept_elems |-> [kept_elems[k] EXCEPT !.inner = <<>>]],
            !.imgs = SelectSeq(page.imgs, Kept)]

(***************************************************************************)
(* _extract_content                                                        *)
(***************************************************************************)
\* the text one selector's container yields (lines 89-93)
ElementText(elem) ==
    LET paragraphs == elem.paras \o elem.inner
    IN  IF paragraphs # <<>>
        THEN LET NonEmpty(p) == p # "" IN Join("\n\n", SelectSeq(paragraphs, NonEmpty))
        ELSE elem.text

\* faulty variant: a text of exactly MinContentLen characters is accepted
LengthGateAtLeast(text) == Truthy(text) /\ Len(text) >= MinContentLen

\* if content and len(content) > 200: break
LengthGate(text) == Truthy(text) /\ Len(text) > MinContentLen

(***************************************************************************)
(* _is_thumbnail_url, _upgrade_thumbnail_url                               *)
(***************************************************************************)
_is_thumbnail_url(url) ==
    IF ~Truthy(url) THEN FALSE
    ELSE LET url_lower == Lower(url)
         IN  \E k \in DOMAIN thumbnail_indicators : Contains(url_lower, thumbnail_indicators[k])

\* faulty variant: both transforms are applied
UpgradeBoth(url) ==
    IF ~Truthy(url) THEN url ELSE StripDimensionSuffix(RemoveWidthSegments(url))

_upgrade_thumbnail_url(url) ==
    IF ~Truthy(url) THEN url
    ELSE LET upgraded == RemoveWidthSegments(url)
         IN  IF upgraded # url THEN upgraded ELSE StripDimensionSuffix(url)

(***************************************************************************)
(* _extract_image                                                          *)
(***************************************************************************)
\* lines 146-150 and 154-157: resolve the meta content, upgrade a thumbnail once
MetaImage(page_url, cont) ==
    LET img_url == urljoin(page_url, cont)
    IN  IF _is_thumbnail_url(img_url) THEN _upgrade_thumbnail_url(img_url) ELSE img_url

\* img.get('src') or img.get('data-src') or img.get('data-lazy-src')
ImageAttr(img) == Or3(img.src, img.data_src, img.data_lazy_src)

\* faulty variant: the selector tier uses the brute-force threshold
SelectorAcceptsWide(width) ==
    IF Truthy(width) THEN int(width) # ValueError /\ int(width) > BruteMinWidth ELSE TRUE

\* lines 176-184: width present: accepted when int(width) > 200, a ValueError
\* is passed over; width missing or empty: accepted
SelectorAccepts(width) ==
    IF Truthy(width) THEN int(width) # ValueError /\ int(width) > SelectorMinWidth ELSE TRUE

\* faulty variant: a width of exactly BruteMinWidth is accepted
BruteAcceptsAtLeast(width) ==
    IF Truthy(width) THEN int(width) # ValueError /\ int(width) >= BruteMinWidth ELSE TRUE

\* lines 196-205, the same with 300
BruteAccepts(width) ==
    IF Truthy(width) THEN int(width) # ValueError /\ int(width) > BruteMinWidth ELSE TRUE

\* faulty variant: the keywords are looked up without lower()
SkippedCaseSensitive(img_url) ==
    \E k \in DOMAIN skip_keywords : Contains(img_url, skip_keywords[k])

\* any(skip in img_url.lower() for skip in skip_keywords)
Skipped(img_url) ==
    LET lowered == Lower(img_url)
    IN  \E k \in DOMAIN skip_keywords : Contains(lowered, skip_keywords[k])

(***************************************************************************)
(* scrape_article, one step per statement or loop iteration                *)
(***************************************************************************)
NoSoup == [metas |-> <<>>, elems |-> <<>>, imgs |-> <<>>]

\* result = {'content': None, 'image_url': None}
EmptyResult == [content |-> None, image_url |-> None]

\* faulty variant: no except clause, the exception of a failed request leaves
\* scrape_article
FetchEscapes ==
    /\ pc = "fetch"
    /\ IF response.ok
       THEN soup' = response.page /\ pc' = "decompose"
       ELSE soup' = soup /\ pc' = "raised"
    /\ UNCHANGED <<article_url, rss_image, response, sel_i, content,
                   extracted_image, img_tier, result>>
    /\ UNCHANGED outside_scraper

\* requests.get + raise_for_status + BeautifulSoup; an exception ends the call
\* in the except branch, which returns the result as it stands
Fetch ==
    /\ pc = "fetch"
    /\ IF response.ok
       THEN soup' = response.page /\ pc' = "decompose"
       ELSE soup' = soup /\ pc' = "done"
    /\ UNCHANGED <<article_url, rss_image, response, sel_i, content,
                   extracted_image, img_tier, result>>
    /\ UNCHANGED outside_scraper

\* lines 37-39, then the call of _extract_content (content = None)
Prune ==
    /\ pc = "decompose"
    /\ soup' = Decompose(soup)
    /\ pc' = "content"
    /\ sel_i' = 1
    /\ content' = None
    /\ UNCHANGED <<article_url, rss_image, response, extracted_image, img_tier, result>>
    /\ UNCHANGED outside_scraper

\* one iteration of `for selector in content_selectors`; sel_i stays on the
\* selector that broke out of the loop
ContentSelector ==
    /\ pc = "content"
    /\ sel_i <= Len(content_selectors)
    /\ LET e == select_one(soup.elems, content_selectors[sel_i])
           text == IF e = 0 THEN content ELSE ElementText(soup.elems[e])
       IN  /\ content' = text
           /\ IF e # 0 /\ LengthGate(text)
              THEN pc' = "cleanup" /\ sel_i' = sel_i
              ELSE pc' = pc /\ sel_i' = sel_i + 1
    /\ UNCHANGED <<article_url, rss_image, response, soup, extracted_image, img_tier, result>>
    /\ UNCHANGED outside_scraper

\* the loop ran out of selectors
ContentExhausted ==
    /\ pc = "content"
    /\ sel_i > Len(content_selectors)
    /\ pc' = "cleanup"
    /\ UNCHANGED <<article_url, rss_image, response, soup, sel_i, content,
                   extracted_image, img_tier, result>>
    /\ UNCHANGED outside_scraper

\* lines 100-105 and result['content'] = ...
ContentCleanup ==
    /\ pc = "cleanup"
    /\ content' = CleanUp(content)
    /\ result' = [result EXCEPT !.content = CleanUp(content)]
    /\ pc' = "og"
    /\ UNCHANGED <<article_url, rss_image, response, soup, sel_i, extracted_image, img_tier>>
    /\ UNCHANGED outside_scraper

\* `return value` of _extract_image and result['image_url'] = ...
Return(tier, value) ==
    /\ extracted_image' = value
    /\ img_tier' = tier
    /\ result' = [result EXCEPT !.image_url = value]
    /\ pc' = "fallback"

\* lines 144-150
MetaOg ==
    /\ pc = "og"
    /\ LET m == find_og_image(soup.metas)
       IN  IF m # 0 /\ Truthy(soup.metas[m].content)
           THEN Return("og", MetaImage(article_url, soup.metas[m].content))
           ELSE pc' = "twitter" /\ UNCHANGED <<extracted_image, img_tier, result>>
    /\ UNCHANGED <<article_url, rss_image, response, soup, sel_i, content>>
    /\ UNCHANGED outside_scraper

\* lines 152-157
MetaTwitter ==
    /\ pc = "twitter"
    /\ LET m == find_twitter_image(soup.metas)
       IN  IF m # 0 /\ Truthy(soup.metas[m].content)
           THEN Return("twitter", MetaImage(article_url, soup.metas[m].content))
                /\ sel_i' = sel_i
           ELSE /\ pc' = "selectors"
                /\ sel_i' = 1
                /\ UNCHANGED <<extracted_image, img_tier, result>>
    /\ UNCHANGED <<article_url, rss_image, response, soup, content>>
    /\ UNCHANGED outside_scraper

\* one iteration of `for selector in selectors` (lines 170-184); sel_i stays on
\* the selector whose image was returned
ImageSelector ==
    /\ pc = "selectors"
    /\ sel_i <= Len(image_selectors)
    /\ LET i == select_one(soup.imgs, image_selectors[sel_i])
       IN  IF /\ i # 0
              /\ Truthy(ImageAttr(soup.imgs[i]))
              /\ SelectorAccepts(soup.imgs[i].width)
           THEN Return("selector", urljoin(article_url, ImageAttr(soup.imgs[i])))
                /\ sel_i' = sel_i
           ELSE /\ sel_i' = sel_i + 1
                /\ UNCHANGED <<pc, extracted_image, img_tier, result>>
    /\ UNCHANGED <<article_url, rss_image, response, soup, content>>
    /\ UNCHANGED outside_scraper

\* no selector gave an image: imgs = soup.find_all('img')
SelectorsExhausted ==
    /\ pc = "selectors"
    /\ sel_i > Len(image_selectors)
    /\ pc' = "imgs"
    /\ sel_i' = 1
    /\ UNCHANGED <<article_url, rss_image, response, soup, content,
                   extracted_image, img_tier, result>>
    /\ UNCHANGED outside_scraper

\* one iteration of `for img in imgs` (lines 188-205); sel_i stays on the image
\* that was returned
BruteForce ==
    /\ pc = "imgs"
    /\ sel_i <= Len(soup.imgs)
    /\ LET img == soup.imgs[sel_i]
           img_url == urljoin(article_url, ImageAttr(img))
       IN  IF /\ Truthy(ImageAttr(img))
              /\ ~Skipped(img_url)
              /\ BruteAccepts(img.width)
           THEN Return("brute", img_url) /\ sel_i' = sel_i
           ELSE /\ sel_i' = sel_i + 1
                /\ UNCHANGED <<pc, extracted_image, img_tier, result>>
    /\ UNCHANGED <<article_url, rss_image, response, soup, content>>
    /\ UNCHANGED outside_scraper

\* line 207: return None
NoImage ==
    /\ pc = "imgs"
    /\ sel_i > Len(soup.imgs)
    /\ Return("none", None)
    /\ UNCHANGED <<article_url, rss_image, response, soup, sel_i, content>>
    /\ UNCHANGED outside_scraper

\* faulty variant: a thumbnail-shaped feed image is not used
FeedFallbackSkipsThumbnails(image_url, feed_image) ==
    IF ~Truthy(image_url)
    THEN IF Truthy(feed_image) /\ ~_is_thumbnail_url(feed_image) THEN feed_image
         ELSE image_url
    ELSE image_url

\* lines 49-54: the value of result['image_url'] after the fallback
FeedFallback(image_url, feed_image) ==
    IF ~Truthy(image_url)
    THEN IF Truthy(feed_image) /\ ~_is_thumbnail_url(feed_image) THEN feed_image
         ELSE IF Truthy(feed_image) THEN feed_image
         ELSE image_url
    ELSE image_url

\* lines 49-56
Fallback ==
    /\ pc = "fallback"
    /\ result' = [result EXCEPT !.image_url = FeedFallback(result.image_url, rss_image)]
    /\ pc' = "done"
    /\ UNCHANGED <<article_url, rss_image, response, soup, sel_i, content,
                   extracted_image, img_tier>>
    /\ UNCHANGED outside_scraper

Next ==
    \/ Fetch
    \/ Prune
    \/ ContentSelector
    \/ ContentExhausted
    \/ ContentCleanup
    \/ MetaOg
    \/ MetaTwitter
    \/ ImageSelector
    \/ SelectorsExhausted
    \/ BruteForce
    \/ NoImage
    \/ Fallback

(***************************************************************************)
(* The workflow around the scraper while no run is in progress             *)
(***************************************************************************)
\* `article` when check_topmost_article returned None
NoArticle ==
    [feed_name |-> None, title |-> None, url |-> None, published |-> None,
     summary |-> None, content |-> None, rss_image |-> None]

\* nothing outside is asked
NoEnv ==
    [feeds |-> <<>>, table |-> <<>>, rewritten |-> None, fault |-> "none", post_ok |-> FALSE]

NoConfig == [webhook_url |-> "", include_original |-> FALSE]

\* scrape_article called on its own: run_workflow is not running
WorkflowIdle ==
    /\ wpc = "idle"
    /\ env = NoEnv
    /\ config = NoConfig
    /\ article = NoArticle
    /\ articles = <<>>
    /\ processing_log = <<>>
    /\ errors = <<>>
    /\ new_count = 0
    /\ processed_count = 0
    /\ scraped = [content |-> None, image_url |-> None]
    /\ rewrites = <<>>
    /\ ready_articles = <<>>
    /\ success = FALSE
    /\ posts = <<>>
    /\ files = <<>>

(***************************************************************************)
(* The pages, page URLs and feed images the calls are made with            *)
(***************************************************************************)
\* at most this many content containers, meta tags, img tags on a page
MaxElems == 2
MaxMetas == 2
MaxImgs == 2

SeqsUpTo(S, n) == UNION {[1..k -> S] : k \in 0..n}

ParaA == "The harbour authority said on Monday that the new container terminal will open next spring after two"
ParaB == "Officials expect the expansion to double the capacity of the port and to bring several hundred jobs."
ParaC == "Shipping lines have already booked berths for the first quarter while local fishermen warn about th"
ParaD == "A spokesman for the operator declined to comment on the cost overruns reported by the regional pres"
LineA == "Main column text about the vessel traffic in the strait and the weather that closed the channel for three days in a row."
LineB == "Pilots returned to work on Thursday and the backlog of tankers waiting at anchor is expected to clear before the weekend"

\* what a container holds: <<texts of its p/h1..h6 nodes, its whole text>>
\*   a short teaser without paragraphs; two paragraphs of 100 characters (202
\*   joined); two of 99 around an empty one (200 joined); two lines of 120
\*   without paragraphs (241)
Holdings ==
    { << <<>>, "Subscribe to read.\nAlready a member? Sign in" >>,
      << <<ParaA, ParaB>>, ParaA \o "\n" \o ParaB >>,
      << <<ParaC, "", ParaD>>, ParaC \o "\n" \o ParaD >>,
      << <<>>, LineA \o "\n" \o LineB >> }

\* the selectors a container matches: a div.article-body, an article inside
\* main, the main element
ElemSelectors == { {".article-body"}, {"article", "main article"}, {"main"} }

ElemPool ==
    {Elem(s, h[1], h[2], "") : s \in ElemSelectors, h \in Holdings}
        \cup {Elem({".content-area"}, <<ParaB, ParaA>>, ParaB \o "\n" \o ParaA, "footer")}

OgContents ==
    { "", "https://x.com/img/w150/photo.jpg", "/media/story-300x200.jpg",
      "https://cdn.test/photos/full.jpg", "https://x.com/thumb/w150/a-300x200.jpg",
      "https://x.com/preview/pic.jpg" }

TwitterContents == { "", "https://cdn.test/tw/card.jpg", "img/h150/card-200x100.jpg" }

MetaPool ==
    {Meta("og:image", None, c) : c \in OgContents}
        \cup {Meta(None, "twitter:image", c) : c \in TwitterContents}

ImgPool ==
    { Img({"img.wp-post-image"}, "hero.jpg", None, None, "800", ""),
      Img({"img.article-image"}, "/img/teaser.jpg", None, None, "150", ""),
      Img({"img.featured-image"}, "/img/lead.jpg", None, None, "200", ""),
      Img({"article img:first-of-type", "main img:first-of-type"},
          "/img/mid.jpg", None, None, "250", ""),
      Img({"img.featured-image"}, None, "/lazy/pic.jpg", "/lazy/pic-2.jpg", None, ""),
      Img({"img.article-image"}, None, None, None, "900", ""),
      Img({"img.wp-post-image"}, "/img/px.jpg", None, None, "100px", ""),
      Img({"img.article-image"}, "/img/menu.jpg", None, None, None, "nav"),
      Img({}, "https://cdn.test/photos/big.jpg", None, None, "640", ""),
      Img({}, "/img/body.jpg", None, None, "300", ""),
      Img({}, "/img/chart.jpg", "/img/chart-full.jpg", None, "50%", ""),
      Img({}, "/logo.png", None, None, None, ""),
      Img({}, "/img/Banner.jpg", None, None, "728", "") }

PageUrls == { "https://news.test/a/1" }

FeedImages ==
    { None, "", "https://cdn.test/thumb/x.jpg", "https://cdn.test/feed/full.jpg",
      "/media/feed.jpg" }

Page(metas, elems, imgs) == [metas |-> metas, elems |-> elems, imgs |-> imgs]

Call(url, feed_image, ok, page) ==
    [url |-> url, rss_image |-> feed_image, response |-> [ok |-> ok, page |-> page]]

\* pages that vary in their content containers
ContentCalls ==
    {Call(u, None, TRUE, Page(<<>>, es, <<>>)) :
        u \in PageUrls, es \in SeqsUpTo(ElemPool, MaxElems)}

\* pages that vary in their meta tags, without and with a body image and a
\* feed image
MetaCalls ==
    {Call(u, x[1], TRUE, Page(ms, <<>>, x[2])) :
        u \in PageUrls,
        ms \in SeqsUpTo(MetaPool, MaxMetas),
        x \in { <<None, <<>> >>,
                << "https://cdn.test/thumb/x.jpg",
                   <<Img({"img.wp-post-image"}, "hero.jpg", None, None, "800", "")>> >> }}

\* pages that vary in their img tags, without meta tags
ImgCalls ==
    {Call(u, "https://cdn.test/thumb/x.jpg", TRUE, Page(<<>>, <<>>, is)) :
        u \in PageUrls, is \in SeqsUpTo(ImgPool, MaxImgs)}

\* pages without a usable image of their own, with every kind of feed image
FeedCalls ==
    {Call(u, f, TRUE, Page(ms, <<>>, is)) :
        u \in PageUrls, f \in FeedImages,
        ms \in {<<>>, <<Meta("og:image", None, "")>>},
        is \in {<<>>, <<Img({}, "/logo.png", None, None, None, "")>>}}

\* images at the edges of the brute-force rule and with attributes missing,
\* empty or malformed: width="", a width just above the threshold, a lazy
\* image, an empty src, a wide avatar, an empty width under a selector, a
\* width of letters
EdgePool ==
    { Img({}, "/img/blank.jpg", None, None, "", ""),
      Img({}, "/img/edge.jpg", None, None, "301", ""),
      Img({}, None, None, "/lazy/only.jpg", None, ""),
      Img({}, "", "/lazy/second.jpg", None, " 400 ", ""),
      Img({}, "/img/avatar-big.jpg", None, None, "900", ""),
      Img({"img.featured-image"}, "/img/sel.jpg", None, None, "", ""),
      Img({}, "/img/tall.jpg", None, None, "abc", "") }

\* pages of such images, with a meta tag that has no content, without feed image
EdgeCalls ==
    {Call(u, None, TRUE, Page(<<Meta("og:image", None, None)>>, <<>>, is)) :
        u \in PageUrls, is \in SeqsUpTo(EdgePool, MaxImgs)}

BoilerA == "Related stories from the harbour desk and the business pages of the paper, updated every hour by the newsroom."
BoilerB == "Sign up for the morning briefing and get the shipping forecast, the tide tables and the market report by mail."

\* containers with and inside nodes that are decomposed: an article with
\* related stories in an aside; a div.article-body inside an aside; a main
\* element whose only paragraphs are in a nav
PruneElems ==
    { ElemAround({"article"}, <<ParaA, ParaB>>, ParaA \o "\n" \o ParaB, <<BoilerA>>),
      Elem({".article-body"}, <<BoilerA, BoilerB>>, BoilerA \o "\n" \o BoilerB, "aside"),
      ElemAround({"main"}, <<>>, "Subscribe to read.", <<BoilerB, BoilerA>>) }

\* pages of such containers, without images and with both
PruneCalls ==
    {Call(u, None, TRUE, Page(<<>>, es, is)) :
        u \in PageUrls,
        es \in SeqsUpTo(PruneElems, MaxElems),
        is \in { <<>>,
                 << Img({"img.featured-image"}, "/img/related.jpg", None, None, None, "aside"),
                    Img({}, "/img/story.jpg", None, None, "640", "") >> }}

\* requests that fail
FailedCalls == {Call(u, f, FALSE, NoSoup) : u \in PageUrls, f \in FeedImages}

Calls ==
    ContentCalls \cup MetaCalls \cup ImgCalls \cup FeedCalls \cup EdgeCalls \cup PruneCalls
        \cup FailedCalls

Init ==
    \E c \in Calls :
        /\ article_url = c.url
        /\ rss_image = c.rss_image
        /\ response = c.response
        /\ pc = "fetch"
        /\ soup = NoSoup
        /\ sel_i = 0
        /\ content = None
        /\ extracted_image = None
        /\ img_tier = "none"
        /\ result = EmptyResult
        /\ is_thumbnail = FALSE
        /\ TwitterIdle
        /\ WorkflowIdle

Spec == Init /\ [][Next]_vars

(***************************************************************************)
(* Properties of scrape_article                                            *)
(***************************************************************************)
\* the call fetched the page and _extract_content has returned
ContentReturned == response.ok /\ pc \in {"og", "twitter", "selectors", "imgs", "fallback", "done"}

\* the call fetched the page and _extract_image has returned
ImageReturned == response.ok /\ pc \in {"fallback", "done"}

\* the text selector number i yields on the pruned page, None when it matches nothing
Yield(i) ==
    LET e == select_one(soup.elems, content_selectors[i])
    IN  IF e = 0 THEN None ELSE ElementText(soup.elems[e])

\* the selectors whose text passes the length gate
Passing == {i \in DOMAIN content_selectors : Yield(i) # None /\ Len(Yield(i)) > MinContentLen}

FirstPassing == CHOOSE i \in Passing : \A j \in Passing : i <= j

\* C1 (as claimed): when every selector that matches the pruned page yields
\* fewer than 200 characters, or none matches, _extract_content returns no
\* text: never a short text of a selector that failed the length gate.
C1_LengthGate ==
    ( /\ ContentReturned
      /\ \A i \in DOMAIN content_selectors : Yield(i) = None \/ Len(Yield(i)) < MinContentLen )
    => ~Truthy(result.content)

OgTag ==
    LET tags == {i \in DOMAIN soup.metas : soup.metas[i].property = "og:image"}
    IN  IF tags = {} THEN 0 ELSE CHOOSE i \in tags : \A j \in tags : i <= j
TwitterTag ==
    LET tags == {i \in DOMAIN soup.metas : soup.metas[i].name = "twitter:image"}
    IN  IF tags = {} THEN 0 ELSE CHOOSE i \in tags : \A j \in tags : i <= j
OgGiven == OgTag # 0 /\ soup.metas[OgTag].content \notin {None, ""}
TwitterGiven == TwitterTag # 0 /\ soup.metas[TwitterTag].content \notin {None, ""}

MetaResolved ==
    urljoin(article_url,
            IF img_tier = "og" THEN soup.metas[OgTag].content
            ELSE soup.metas[TwitterTag].content)

\* C4: a tier-1 URL that matches the thumbnail heuristic is returned upgraded
\* once: with its /w<digits>/ segments removed if it has any, otherwise with its
\* -<digits>x<digits> suffix before a dot stripped, otherwise unchanged; never
\* both transforms, no second look at the upgraded URL; a tier-1 URL that does
\* not match the heuristic is returned as resolved.
C4_ThumbnailUpgrade ==
    (ImageReturned /\ img_tier \in {"og", "twitter"}) =>
        /\ ~_is_thumbnail_url(MetaResolved) => extracted_image = MetaResolved
        /\ (_is_thumbnail_url(MetaResolved) /\ RemoveWidthSegments(MetaResolved) # MetaResolved)
              => extracted_image = RemoveWidthSegments(MetaResolved)
        /\ (_is_thumbnail_url(MetaResolved) /\ RemoveWidthSegments(MetaResolved) = MetaResolved)
              => extracted_image = StripDimensionSuffix(MetaResolved)
        /\ MetaResolved = "https://x.com/img/w150/photo.jpg"
              => extracted_image = "https://x.com/img/photo.jpg"
        /\ (MetaResolved = "https://news.test/media/story-300x200.jpg")
              => extracted_image = "https://news.test/media/story.jpg"
        /\ MetaResolved = "https://x.com/thumb/w150/a-300x200.jpg"
              => extracted_image = "https://x.com/thumb/a-300x200.jpg"
        /\ MetaResolved = "https://x.com/preview/pic.jpg"
              => extracted_image = "https://x.com/preview/pic.jpg"

\* C4 witness: an URL with both a width segment and a dimension suffix came
\* back with the segment removed and the suffix kept, still thumbnail-shaped.
C4_Witness ==
    /\ pc = "done"
    /\ img_tier = "og"
    /\ \E i \in 1..Len(MetaResolved) : MatchDimensionSuffix(MetaResolved, i) > 0
    /\ RemoveWidthSegments(MetaResolved) # MetaResolved
    /\ result.image_url = RemoveWidthSegments(MetaResolved)
    /\ _is_thumbnail_url(result.image_url)

\* C4 witness of the second transform: the relative og:image of the scenario.
C4_WitnessSuffix ==
    /\ pc = "done"
    /\ img_tier = "og"
    /\ soup.metas[OgTag].content = "/media/story-300x200.jpg"
    /\ result.image_url = "https://news.test/media/story.jpg"

\* the image selector number j finds on the pruned page (0: none)
SelectedImg(j) == select_one(soup.imgs, image_selectors[j])

HasUrl(img) == Truthy(img.src) \/ Truthy(img.data_src) \/ Truthy(img.data_lazy_src)

\* the first non-empty of src, data-src, data-lazy-src
FirstUrl(img) ==
    IF Truthy(img.src) THEN img.src
    ELSE IF Truthy(img.data_src) THEN img.data_src ELSE img.data_lazy_src

WidthAbsent(img) == img.width = None
WidthParses(img) == img.width # None /\ int(img.width) # ValueError
WidthMalformed(img) == img.width # None /\ int(img.width) = ValueError

\* the image selectors the selector tier went through without returning
SelectorsPassedOver ==
    IF ~response.ok \/ pc \in {"fetch", "decompose", "content", "cleanup", "og", "twitter"}
        THEN {}
    ELSE IF img_tier \in {"og", "twitter"} THEN {}
    ELSE IF pc = "selectors" \/ img_tier = "selector" THEN 1..(sel_i - 1)
    ELSE DOMAIN image_selectors

\* the images the brute-force tier went through without returning
ImagesPassedOver ==
    IF ~response.ok THEN {}
    ELSE IF pc = "imgs" \/ (ImageReturned /\ img_tier = "brute") THEN 1..(sel_i - 1)
    ELSE IF ImageReturned /\ img_tier = "none" THEN DOMAIN soup.imgs
    ELSE {}

\* C5: in the selector tier an image with a URL is returned at once when it
\* declares no width or a width that parses as an integer above 200; an image
\* whose width parses as 200 or less is never what the tier returns: the loop
\* goes on with the next selector and, after the last, with the brute-force
\* tier.  The URL returned is the first of src, data-src, data-lazy-src,
\* resolved against the article URL.
C5_SelectorSizeRule ==
    /\ \A j \in SelectorsPassedOver :
          LET i == SelectedImg(j)
          IN  i # 0 /\ HasUrl(soup.imgs[i]) =>
                 /\ ~WidthAbsent(soup.imgs[i])
                 /\ ~(WidthParses(soup.imgs[i]) /\ int(soup.imgs[i].width) > 200)
    /\ (ImageReturned /\ img_tier = "selector") =>
          LET i == SelectedImg(sel_i)
          IN  /\ i # 0 /\ HasUrl(soup.imgs[i])
              /\ ~(WidthParses(soup.imgs[i]) /\ int(soup.imgs[i].width) <= 200)
              /\ extracted_image = urljoin(article_url, FirstUrl(soup.imgs[i]))
    /\ (pc = "imgs" \/ (ImageReturned /\ img_tier \in {"brute", "none"})) =>
          SelectorsPassedOver = DOMAIN image_selectors

\* C5 witness: a selector's image of width 200 or less was passed over and a
\* later selector's image of width above 200 was returned.
C5_Witness ==
    /\ pc = "done"
    /\ img_tier = "selector"
    /\ WidthParses(soup.imgs[SelectedImg(sel_i)])
    /\ \E j \in 1..(sel_i - 1) :
          /\ SelectedImg(j) # 0
          /\ HasUrl(soup.imgs[SelectedImg(j)])
          /\ WidthParses(soup.imgs[SelectedImg(j)])
          /\ int(soup.imgs[SelectedImg(j)].width) <= 200

\* C6 (as claimed): an image whose width does not parse as an integer is
\* handled like an image without width: with a URL it is returned by the
\* selector tier, and by the brute-force tier unless deny-listed, so neither
\* tier ever passes one over.
C6_MalformedWidthAsAbsent ==
    /\ \A j \in SelectorsPassedOver :
          LET i == SelectedImg(j)
          IN  ~(i # 0 /\ HasUrl(soup.imgs[i]) /\ WidthMalformed(soup.imgs[i]))
    /\ \A k \in ImagesPassedOver :
          ~( /\ HasUrl(soup.imgs[k])
             /\ ~Skipped(urljoin(article_url, FirstUrl(soup.imgs[k])))
             /\ WidthMalformed(soup.imgs[k]) )

DenyWords == {"logo", "icon", "avatar", "button", "ad", "banner", "sponsor", "pixel"}

DenyListed(url) == LET lowered == Lower(url) IN \E w \in DenyWords : Contains(lowered, w)

\* C7: the brute-force tier never returns an URL that contains a deny-list
\* word in any letter case; when every image with a URL is deny-listed and
\* tiers 1 and 2 gave nothing, the final image is the feed image or None.
C7_DenyList ==
    /\ (ImageReturned /\ img_tier = "brute") => ~DenyListed(extracted_image)
    /\ ( /\ pc = "done" /\ response.ok
         /\ img_tier \notin {"og", "twitter", "selector"}
         /\ \A k \in DOMAIN soup.imgs :
               HasUrl(soup.imgs[k])
                  => DenyListed(urljoin(article_url, FirstUrl(soup.imgs[k]))) )
       => /\ img_tier = "none"
          /\ result.image_url = IF Truthy(rss_image) THEN rss_image ELSE None

\* C7 witness: the only image of the page is a wide banner in capitals; the
\* feed image was returned.
C7_Witness ==
    /\ pc = "done"
    /\ Len(soup.imgs) = 1
    /\ HasUrl(soup.imgs[1])
    /\ Contains(FirstUrl(soup.imgs[1]), "Banner")
    /\ img_tier = "none"
    /\ Truthy(rss_image)
    /\ result.image_url = rss_image

C9_AbsoluteImageUrl ==
    (pc = "done" /\ response.ok) => (result.image_url = None \/ HasScheme(result.image_url))

\* an image the brute-force tier is to accept: it has a URL, the resolved URL
\* is not deny-listed, and it declares no width (attribute missing or empty)
\* or a width that parses as an integer above 300
Qualifies(img) ==
    /\ HasUrl(img)
    /\ \/ ~Truthy(img.width)
       \/ WidthParses(img) /\ int(img.width) > 300
    /\ ~DenyListed(urljoin(article_url, FirstUrl(img)))

Qualifying == {k \in DOMAIN soup.imgs : Qualifies(soup.imgs[k])}

\* tiers 1 and 2 produce nothing on the pruned page
MetaAndSelectorsEmpty ==
    /\ ~OgGiven /\ ~TwitterGiven
    /\ \A j \in DOMAIN image_selectors :
          LET i == SelectedImg(j)
          IN  ~( /\ i # 0 /\ HasUrl(soup.imgs[i])
                 /\ \/ ~Truthy(soup.imgs[i].width)
                    \/ WidthParses(soup.imgs[i]) /\ int(soup.imgs[i].width) > 200 )

\* C11: when tiers 1 and 2 produce nothing, the brute-force tier returns the
\* first image in document order that has a URL (src, else data-src, else
\* data-lazy-src), is not deny-listed and declares no width or a width that
\* parses as an integer above 300, resolved against the article URL; images
\* with a parsed width of 300 or less are passed over; when no image
\* qualifies the tier returns None.
C11_BruteForceAcceptance ==
    ImageReturned =>
        /\ MetaAndSelectorsEmpty <=> img_tier \in {"brute", "none"}
        /\ img_tier = "brute" =>
              /\ Qualifying # {}
              /\ sel_i = FirstIndex(Qualifying)
              /\ extracted_image = urljoin(article_url, FirstUrl(soup.imgs[sel_i]))
        /\ img_tier = "none" => (Qualifying = {} /\ extracted_image = None)
        /\ \A k \in ImagesPassedOver : ~Qualifies(soup.imgs[k])

\* C11 witness: an image of width 300 or less was passed over and a later
\* image of width above 300 was returned.
C11_Witness ==
    /\ pc = "done"
    /\ img_tier = "brute"
    /\ WidthParses(soup.imgs[sel_i]) /\ int(soup.imgs[sel_i].width) > 300
    /\ \E k \in 1..(sel_i - 1) :
          /\ HasUrl(soup.imgs[k])
          /\ ~DenyListed(urljoin(article_url, FirstUrl(soup.imgs[k])))
          /\ WidthParses(soup.imgs[k]) /\ int(soup.imgs[k].width) <= 300
    /\ result.image_url = urljoin(article_url, FirstUrl(soup.imgs[sel_i]))

\* the positions of a call of scrape_article, "done" when it has returned
Positions ==
    {"fetch", "decompose", "content", "cleanup", "og", "twitter", "selectors",
     "imgs", "fallback", "done"}

\* the loops of the call stand on an entry of their list or just behind its end
LoopsInRange ==
    /\ pc = "content" => sel_i \in 1..(Len(content_selectors) + 1)
    /\ pc = "selectors" => sel_i \in 1..(Len(image_selectors) + 1)
    /\ pc = "imgs" => sel_i \in 1..(Len(soup.imgs) + 1)

C12_WitnessFailed ==
    /\ pc = "done"
    /\ ~response.ok
    /\ Truthy(rss_image)
    /\ result = [content |-> None, image_url |-> None]

\* the node is, or lies in, a node scrape_article decomposes
Boilerplate(node) == node.tag \in boilerplate_tags

\* the texts the fetched page holds in decomposed nodes
BoilerplateTexts ==
    UNION {{e.paras[j] : j \in DOMAIN e.paras} \cup {e.text} :
              e \in {response.page.elems[k] :
                        k \in {i \in DOMAIN response.page.elems :
                                  Boilerplate(response.page.elems[i])}}}
        \cup UNION {{response.page.elems[k].inner[j] : j \in DOMAIN response.page.elems[k].inner} :
                       k \in DOMAIN response.page.elems}

\* the texts the fetched page holds outside decomposed nodes
KeptTexts ==
    UNION {{e.paras[j] : j \in DOMAIN e.paras} \cup {e.text} :
              e \in {response.page.elems[k] :
                        k \in {i \in DOMAIN response.page.elems :
                                  ~Boilerplate(response.page.elems[i])}}}

\* the URLs of the images of the fetched page outside decomposed nodes
KeptImageUrls ==
    {urljoin(article_url, FirstUrl(response.page.imgs[k])) :
        k \in {i \in DOMAIN response.page.imgs :
                  ~Boilerplate(response.page.imgs[i]) /\ HasUrl(response.page.imgs[i])}}

\* C19: the nodes scrape_article decomposes are gone from the page before
\* _extract_content and _extract_image begin: while the page is fetched and
\* pruned nothing has been extracted; from then on the page holds no such
\* node; the content returned contains no text that the fetched page holds
\* only in such nodes, and an image returned by the selector or brute-force
\* tier is an image outside such nodes.
C19_PruningPrecedesExtraction ==
    /\ pc \in {"fetch", "decompose"} =>
          /\ content = None /\ extracted_image = None
          /\ result = [content |-> None, image_url |-> None]
    /\ (response.ok /\ pc \notin {"fetch", "decompose"}) =>
          /\ \A k \in DOMAIN soup.elems :
                ~Boilerplate(soup.elems[k]) /\ soup.elems[k].inner = <<>>
          /\ \A k \in DOMAIN soup.imgs : ~Boilerplate(soup.imgs[k])
          /\ Len(soup.elems) =
                Cardinality({k \in DOMAIN response.page.elems :
                                ~Boilerplate(response.page.elems[k])})
          /\ Len(soup.imgs) =
                Cardinality({k \in DOMAIN response.page.imgs :
                                ~Boilerplate(response.page.imgs[k])})
    /\ (response.ok /\ pc = "done") =>
          /\ \A t \in BoilerplateTexts \ (KeptTexts \cup {""}) : ~Contains(result.content, t)
          /\ img_tier \in {"selector", "brute"} => extracted_image \in KeptImageUrls

\* C19 witness: the page has a long text in an aside under the first matching
\* selector, an article with an aside inside it, and an image in an aside
\* under an image selector; the article's own text and the story's image
\* were returned.
C19_Witness ==
    /\ pc = "done"
    /\ \E k \in DOMAIN response.page.elems :
          /\ Boilerplate(response.page.elems[k])
          /\ ".article-body" \in response.page.elems[k].sels
          /\ LengthGate(ElementText(response.page.elems[k]))
    /\ \E k \in DOMAIN response.page.elems : response.page.elems[k].inner # <<>>
    /\ \E k \in DOMAIN response.page.imgs :
          /\ Boilerplate(response.page.imgs[k])
          /\ response.page.imgs[k].sels # {}
          /\ HasUrl(response.page.imgs[k])
    /\ result.content = ParaA \o "\n\n" \o ParaB
    /\ img_tier = "brute"
    /\ result.image_url = "https://news.test/img/story.jpg"

(***************************************************************************)
(* The clean-up step of _extract_content on its own, applied twice         *)
(***************************************************************************)
\* the longest text the step is applied to
MaxTextLen == 5

\* a letter, a blank, the newline the step splits on, a carriage return it strips
TextAlphabet == {"x", " ", "\n", "\r"}

RECURSIVE TextsUpTo(_)
TextsUpTo(n) ==
    IF n = 0 THEN {""}
    ELSE LET shorter == TextsUpTo(n - 1)
         IN  shorter \cup {s \o c : s \in shorter, c \in TextAlphabet}

InitCollapse ==
    /\ pc = "collapse"
    /\ content \in TextsUpTo(MaxTextLen)
    /\ article_url = ""
    /\ rss_image = None
    /\ response = [ok |-> FALSE, page |-> NoSoup]
    /\ soup = NoSoup
    /\ sel_i = 0
    /\ extracted_image = None
    /\ img_tier = "none"
    /\ result = EmptyResult
    /\ is_thumbnail = FALSE
    /\ TwitterIdle
    /\ WorkflowIdle

\* lines 100-103 on the text: content = '\n\n'.join(lines)
CollapseOnce ==
    /\ pc = "collapse"
    /\ content' = CleanUp(content)
    /\ pc' = "collapsed"
    /\ UNCHANGED <<article_url, rss_image, response, soup, sel_i,
                   extracted_image, img_tier, result>>
    /\ UNCHANGED outside_scraper

\* lines 100-105 on the collapsed text: the value returned
CollapseAgain ==
    /\ pc = "collapsed"
    /\ result' = [result EXCEPT !.content = CleanUp(content)]
    /\ pc' = "collapsed twice"
    /\ UNCHANGED <<article_url, rss_image, response, soup, sel_i, content,
                   extracted_image, img_tier>>
    /\ UNCHANGED outside_scraper

NextCollapse == CollapseOnce \/ CollapseAgain

SpecCollapse == InitCollapse /\ [][NextCollapse]_vars

\* C10: the clean-up step applied to its own output returns that output.
C10_CollapseIdempotent ==
    pc = "collapsed twice" => result.content = content

\* C10 witness: a collapsed text of two lines came back unchanged.
C10_Witness ==
    /\ pc = "collapsed twice"
    /\ Contains(content, "\n\n")
    /\ result.content = content

(***************************************************************************)
(* The workflow: rss_processor.py, storage.py, output_queue.py, main.py    *)
(*                                                                         *)
(* env.feeds    what feedparser gives for each enabled feed, in order: the *)
(*              feed's name and its entries (none when the feed is empty   *)
(*              or could not be fetched); an entry has title, link,        *)
(*              published, summary, content (the value of its first        *)
(*              content element, None when it has none) and image (the     *)
(*              URL _extract_rss_image finds, '' when none);               *)
(* env.table    the articles table when the run starts;                    *)
(* env.rewritten  what rewrite_article returns (None: no API key or the    *)
(*              request failed);                                           *)
(* env.fault    the storage call that raises sqlite3.Error, "none" if the  *)
(*              database answers throughout;                               *)
(* env.post_ok  whether the webhook request succeeds.                      *)
(* Timestamps are integers, 0 standing for NULL.                           *)
(***************************************************************************)
\* RSSProcessor._extract_content
FeedContent(entry) == IF Truthy(entry.content) THEN entry.content ELSE entry.summary

\* RSSProcessor.fetch_feed: the article dicts of a feed
fetch_feed(feed) ==
    [k \in DOMAIN feed.entries |->
        [feed_name |-> feed.name,
         title     |-> feed.entries[k].title,
         url       |-> feed.entries[k].link,
         published |-> feed.entries[k].published,
         summary   |-> feed.entries[k].summary,
         content   |-> FeedContent(feed.entries[k]),
         rss_image |-> feed.entries[k].image]]

\* ArticleStorage.article_exists
article_exists(table, url) ==
    \E k \in DOMAIN table : table[k].article_url = url

RECURSIVE check_topmost_article_unseen(_, _)
\* faulty variant: the topmost article is returned without asking the storage
check_topmost_article_unseen(feeds, table) ==
    IF feeds = <<>> THEN NoArticle
    ELSE LET fetched == fetch_feed(Head(feeds))
         IN  IF fetched # <<>> THEN fetched[1]
             ELSE check_topmost_article_unseen(Tail(feeds), table)

RECURSIVE check_topmost_article(_, _)
\* RSSProcessor.check_topmost_article: the first feed that has articles decides
check_topmost_article(feeds, table) ==
    IF feeds = <<>> THEN NoArticle
    ELSE LET fetched == fetch_feed(Head(feeds))
         IN  IF fetched # <<>>
             THEN IF ~article_exists(table, fetched[1].url) THEN fetched[1] ELSE NoArticle
             ELSE check_topmost_article(Tail(feeds), table)

\* CURRENT_TIMESTAMP: later than every timestamp in the table
Clock(table) ==
    LET stamps == {0} \cup {table[k].created_at : k \in DOMAIN table}
                      \cup {table[k].processed_at : k \in DOMAIN table}
    IN  1 + CHOOSE t \in stamps : \A u \in stamps : u <= t

\* faulty variant of the fallback text: the summary before the content
FeedTextSummaryFirst(article_data) == Or2(article_data.summary, article_data.content)

\* article.get('content', '') or article.get('summary', '')
FeedText(article_data) == Or2(article_data.content, article_data.summary)

\* ArticleStorage.save_article: INSERT OR IGNORE
save_article(table, article_data) ==
    IF article_exists(table, article_data.url) THEN table
    ELSE Append(table,
                [id                |-> Len(table) + 1,
                 article_url       |-> article_data.url,
                 feed_name         |-> article_data.feed_name,
                 title             |-> article_data.title,
                 published_date    |-> article_data.published,
                 image_url         |-> None,
                 original_content  |-> FeedText(article_data),
                 rewritten_content |-> None,
                 status            |-> "pending",
                 created_at        |-> Clock(table),
                 processed_at      |-> 0])

\* ArticleStorage.update_article_image
update_article_image(table, url, image_url) ==
    [k \in DOMAIN table |->
        IF table[k].article_url # url THEN table[k]
        ELSE [table[k] EXCEPT !.image_url = image_url]]

\* faulty variant: the update puts the row back in line for the rewriter
update_article_content_requeues(table, url, text, image_url) ==
    [k \in DOMAIN table |->
        IF table[k].article_url # url THEN table[k]
        ELSE [table[k] EXCEPT !.original_content = text, !.status = "pending"]]

\* ArticleStorage.update_article_content
update_article_content(table, url, text, image_url) ==
    [k \in DOMAIN table |->
        IF table[k].article_url # url THEN table[k]
        ELSE IF Truthy(image_url)
             THEN [table[k] EXCEPT !.original_content = text, !.image_url = image_url]
             ELSE [table[k] EXCEPT !.original_content = text]]

\* ArticleStorage.update_article_rewrite
update_article_rewrite(table, url, rewritten_content) ==
    [k \in DOMAIN table |->
        IF table[k].article_url # url THEN table[k]
        ELSE [table[k] EXCEPT !.rewritten_content = rewritten_content,
                              !.status = "ready",
                              !.processed_at = Clock(table)]]

\* the first `limit` entries of a list
Take(rows, limit) == SubSeq(rows, 1, IF Len(rows) < limit THEN Len(rows) ELSE limit)

RECURSIVE ByCreatedDesc(_)
\* ORDER BY created_at DESC
ByCreatedDesc(rows) ==
    IF rows = {} THEN <<>>
    ELSE LET newest == CHOOSE r \in rows : \A q \in rows : q.created_at <= r.created_at
         IN  <<newest>> \o ByCreatedDesc(rows \ {newest})

RECURSIVE ByProcessedDesc(_)
\* ORDER BY processed_at DESC
ByProcessedDesc(rows) ==
    IF rows = {} THEN <<>>
    ELSE LET latest == CHOOSE r \in rows : \A q \in rows : q.processed_at <= r.processed_at
         IN  <<latest>> \o ByProcessedDesc(rows \ {latest})

\* ArticleStorage.get_pending_articles
get_pending_articles(table, limit) ==
    Take(ByCreatedDesc({table[k] : k \in {j \in DOMAIN table : table[j].status = "pending"}}),
         limit)

\* ArticleStorage.get_ready_articles
get_ready_articles(table, limit) ==
    Take(ByProcessedDesc({table[k] : k \in {j \in DOMAIN table : table[j].status = "ready"}}),
         limit)

\* faulty variant: rewritten_text carries the original text
generate_output_original(rows) ==
    [k \in DOMAIN rows |->
        LET output_item ==
                [id                |-> rows[k].id,
                 title             |-> rows[k].title,
                 rewritten_text    |-> rows[k].original_content,
                 image_url         |-> rows[k].image_url,
                 source_url        |-> rows[k].article_url,
                 feed_name         |-> rows[k].feed_name,
                 published_date    |-> rows[k].published_date,
                 processed_at      |-> rows[k].processed_at,
                 ready_for_posting |-> TRUE]
        IN  IF config.include_original
            THEN [f \in DOMAIN output_item \cup {"original"} |->
                    IF f = "original"
                    THEN [title |-> rows[k].title, content |-> rows[k].original_content]
                    ELSE output_item[f]]
            ELSE output_item]

\* OutputQueue.generate_output
generate_output(rows) ==
    [k \in DOMAIN rows |->
        LET output_item ==
                [id                |-> rows[k].id,
                 title             |-> rows[k].title,
                 rewritten_text    |-> rows[k].rewritten_content,
                 image_url         |-> rows[k].image_url,
                 source_url        |-> rows[k].article_url,
                 feed_name         |-> rows[k].feed_name,
                 published_date    |-> rows[k].published_date,
                 processed_at      |-> rows[k].processed_at,
                 ready_for_posting |-> TRUE]
        IN  IF config.include_original
            THEN [f \in DOMAIN output_item \cup {"original"} |->
                    IF f = "original"
                    THEN [title |-> rows[k].title, content |-> rows[k].original_content]
                    ELSE output_item[f]]
            ELSE output_item]

\* the message of the sqlite3 exception a failing storage call raises
DbError == "database is locked"

\* limit=1 of get_pending_articles and get_ready_articles in run_workflow
PendingLimit == 1
ReadyLimitDefault == 50
ReadyLimit == 1

\* faulty variant: the errors of the run are not written
LogEntryWithoutErrors(new_articles, processed_articles, error_str) ==
    [new_articles |-> new_articles, processed_articles |-> processed_articles,
     errors |-> None]

\* storage.log_processing_run(new_articles, processed_articles, errors)
LogEntry(new_articles, processed_articles, error_str) ==
    [new_articles |-> new_articles, processed_articles |-> processed_articles,
     errors |-> error_str]

\* what the steps of run_workflow leave alone in the scraper
scraper_vars ==
    <<pc, article_url, rss_image, response, soup, sel_i, content,
      extracted_image, img_tier, result>>

\* lines 58-66: step 1 and the early exit
CheckTopmost ==
    /\ wpc = "check"
    /\ article' = check_topmost_article(env.feeds, articles)
    /\ IF article' = NoArticle
       THEN /\ processing_log' = Append(processing_log, LogEntry(0, 0, None))
            /\ wpc' = "returned"
       ELSE /\ processing_log' = processing_log
            /\ wpc' = "save"
    /\ UNCHANGED <<env, config, articles, errors, new_count, processed_count, scraped,
                   rewrites, ready_articles, success, posts, files>>
    /\ UNCHANGED <<is_thumbnail, twitter_vars, scraper_vars>>

\* lines 69-70; an exception of the storage ends the run at line 145
SaveArticle ==
    /\ wpc = "save"
    /\ IF env.fault = "save_article"
       THEN /\ errors' = Append(errors, "Workflow error: " \o DbError)
            /\ wpc' = "log"
            /\ UNCHANGED <<articles, new_count>>
       ELSE /\ articles' = save_article(articles, article)
            /\ new_count' = 1
            /\ wpc' = "scrape"
            /\ errors' = errors
    /\ UNCHANGED <<env, config, article, processing_log, processed_count, scraped,
                   rewrites, ready_articles, success, posts, files>>
    /\ UNCHANGED <<is_thumbnail, twitter_vars, scraper_vars>>

\* lines 76-79: scrape_article(article['url'], article.get('rss_image', '')) begins
CallScraper ==
    /\ wpc = "scrape"
    /\ article_url' = article.url
    /\ rss_image' = article.rss_image
    /\ pc' = "fetch"
    /\ soup' = NoSoup
    /\ sel_i' = 0
    /\ content' = None
    /\ extracted_image' = None
    /\ img_tier' = "none"
    /\ result' = EmptyResult
    /\ wpc' = "scraping"
    /\ UNCHANGED <<response, is_thumbnail, twitter_vars>>
    /\ UNCHANGED <<env, config, article, articles, processing_log, errors, new_count,
                   processed_count, scraped, rewrites, ready_articles, success, posts, files>>

\* lines 76-90: scrape_article has returned; empty content is replaced by the
\* feed text
MergeScraped ==
    /\ wpc = "scraping"
    /\ pc = "done"
    /\ scraped' = IF Truthy(result.content) THEN result
                  ELSE [result EXCEPT !.content = FeedText(article)]
    /\ wpc' = "update"
    /\ UNCHANGED <<env, config, article, articles, processing_log, errors, new_count,
                   processed_count, rewrites, ready_articles, success, posts, files>>
    /\ UNCHANGED <<is_thumbnail, twitter_vars, scraper_vars>>

\* lines 93-101: update_article_content; an exception is a scraping error
UpdateContent ==
    /\ wpc = "update"
    /\ IF env.fault = "update_article_content"
       THEN /\ errors' = Append(errors, "Scraping error: " \o DbError)
            /\ articles' = articles
       ELSE /\ articles' = update_article_content(articles, article.url,
                                                  scraped.content, scraped.image_url)
            /\ errors' = errors
    /\ wpc' = "rewrite"
    /\ UNCHANGED <<env, config, article, processing_log, new_count, processed_count,
                   scraped, rewrites, ready_articles, success, posts, files>>
    /\ UNCHANGED <<is_thumbnail, twitter_vars, scraper_vars>>

\* lines 107-125: step 3
Rewrite ==
    /\ wpc = "rewrite"
    /\ LET pending == get_pending_articles(articles, PendingLimit)
       IN  IF pending = <<>>
           THEN UNCHANGED <<articles, errors, processed_count, rewrites>>
           ELSE /\ rewrites' = Append(rewrites, pending[1].article_url)
                /\ IF Truthy(env.rewritten)
                   THEN IF env.fault = "update_article_rewrite"
                        THEN /\ errors' = Append(errors, "LLM error: " \o DbError)
                             /\ UNCHANGED <<articles, processed_count>>
                        ELSE /\ articles' = update_article_rewrite(
                                                articles, pending[1].article_url, env.rewritten)
                             /\ processed_count' = 1
                             /\ errors' = errors
                   ELSE /\ errors' = Append(errors, "Failed to rewrite: " \o pending[1].title)
                        /\ UNCHANGED <<articles, processed_count>>
    /\ wpc' = "ready"
    /\ UNCHANGED <<env, config, article, processing_log, new_count, scraped,
                   ready_articles, success, posts, files>>
    /\ UNCHANGED <<is_thumbnail, twitter_vars, scraper_vars>>

\* lines 131-141: the newest ready article, if any
GetReady ==
    /\ wpc = "ready"
    /\ ready_articles' = get_ready_articles(articles, ReadyLimit)
    /\ wpc' = IF ready_articles' # <<>> THEN "send" ELSE "log"
    /\ UNCHANGED <<env, config, article, articles, processing_log, errors, new_count,
                   processed_count, scraped, rewrites, success, posts, files>>
    /\ UNCHANGED <<is_thumbnail, twitter_vars, scraper_vars>>

\* OutputQueue.send_to_webhook (lines 63-89) and `if not success` of line 138
SendToWebhook ==
    /\ wpc = "send"
    /\ LET output_items == generate_output(ready_articles)
       IN  IF ~Truthy(config.webhook_url) \/ output_items = <<>>
           THEN /\ success' = FALSE
                /\ UNCHANGED <<posts, files>>
           ELSE /\ posts' = Append(posts, output_items)
                /\ IF env.post_ok
                   THEN success' = TRUE /\ files' = files
                   ELSE /\ files' = Append(files, generate_output(ready_articles))
                        /\ success' = FALSE
    /\ wpc' = IF success' THEN "log" ELSE "save_file"
    /\ UNCHANGED <<env, config, article, articles, processing_log, errors, new_count,
                   processed_count, scraped, rewrites, ready_articles>>
    /\ UNCHANGED <<is_thumbnail, twitter_vars, scraper_vars>>

\* OutputQueue.save_to_file (lines 50-61), called at line 139
SaveToFile ==
    /\ wpc = "save_file"
    /\ files' = Append(files, generate_output(ready_articles))
    /\ wpc' = "log"
    /\ UNCHANGED <<env, config, article, articles, processing_log, errors, new_count,
                   processed_count, scraped, rewrites, ready_articles, success, posts>>
    /\ UNCHANGED <<is_thumbnail, twitter_vars, scraper_vars>>

\* lines 150-151
LogRun ==
    /\ wpc = "log"
    /\ processing_log' =
          Append(processing_log,
                 LogEntry(new_count, processed_count,
                          IF errors # <<>> THEN Join("; ", errors) ELSE None))
    /\ wpc' = "returned"
    /\ UNCHANGED <<env, config, article, articles, errors, new_count, processed_count,
                   scraped, rewrites, ready_articles, success, posts, files>>
    /\ UNCHANGED <<is_thumbnail, twitter_vars, scraper_vars>>

NextWorkflow ==
    \/ CheckTopmost
    \/ SaveArticle
    \/ CallScraper
    \/ Fetch
    \/ Prune
    \/ ContentSelector
    \/ ContentExhausted
    \/ ContentCleanup
    \/ MetaOg
    \/ MetaTwitter
    \/ ImageSelector
    \/ SelectorsExhausted
    \/ BruteForce
    \/ NoImage
    \/ Fallback
    \/ MergeScraped
    \/ UpdateContent
    \/ Rewrite
    \/ GetReady
    \/ SendToWebhook
    \/ SaveToFile
    \/ LogRun

(***************************************************************************)
(* The runs of the workflow                                                *)
(***************************************************************************)
\* at most this many enabled feeds, and rows in the table when the run starts
MaxFeeds == 2
MaxStored == 2

\* row number k of the table a run starts with: the odd ones were rewritten
\* in an earlier run, the even ones are still pending
OldRow(k) ==
    [id                |-> k,
     article_url       |-> "https://news.test/old/" \o ToString(k),
     feed_name         |-> "Harbour News",
     title             |-> "Earlier story " \o ToString(k),
     published_date    |-> "Mon, 02 Nov 2026 08:00:00 GMT",
     image_url         |-> IF k % 2 = 1 THEN "https://cdn.test/old/" \o ToString(k) \o ".jpg"
                           ELSE None,
     original_content  |-> "Text of the earlier story " \o ToString(k),
     rewritten_content |-> IF k % 2 = 1 THEN "Earlier post " \o ToString(k) \o " #harbour"
                           ELSE None,
     status            |-> IF k % 2 = 1 THEN "ready" ELSE "pending",
     created_at        |-> 2 * k - 1,
     processed_at      |-> IF k % 2 = 1 THEN 2 * k ELSE 0]

Tables == {[k \in 1..n |-> OldRow(k)] : n \in 0..MaxStored}

Entry(link, raw_content, summary, image) ==
    [title |-> "Port expansion opens in spring", link |-> link,
     published |-> "Wed, 04 Nov 2026 09:30:00 GMT",
     summary |-> summary, content |-> raw_content, image |-> image]

FeedSummary == "The new container terminal will open next spring."
FeedBody == "<p>The harbour authority said on Monday that the terminal will open.</p>"

\* the entry of the article that is stored as row 1
OldEntry == Entry("https://news.test/old/1", None, FeedSummary, "")

\* entries of an article that is not stored: without content element, with an
\* empty one, with a full one, without any text; without and with an image
NewEntries ==
    {Entry("https://news.test/a/1", x[1], x[2], i) :
        x \in { <<None, FeedSummary>>, <<"", FeedSummary>>,
                <<FeedBody, FeedSummary>>, <<None, "">> },
        i \in {"", "https://cdn.test/feed/full.jpg"}}

NewEntry == Entry("https://news.test/a/1", FeedBody, FeedSummary, "https://cdn.test/feed/full.jpg")

Feed(entries) == [name |-> "Harbour News", entries |-> entries]

\* a feed without articles, one whose topmost article is stored, one whose
\* topmost article is new
FeedPool == {Feed(<<>>), Feed(<<OldEntry>>), Feed(<<NewEntry, OldEntry>>)}

\* the pages the article URL answers with: a failed request; text and an
\* og:image; nothing at all; a teaser and a logo; a wide image; a selector's
\* image and a twitter:image without content
WorkflowResponses ==
    { [ok |-> FALSE, page |-> NoSoup],
      [ok |-> TRUE,
       page |-> Page(<<Meta("og:image", None, "https://cdn.test/photos/full.jpg")>>,
                     <<Elem({".article-body"}, <<ParaA, ParaB>>, ParaA \o "\n" \o ParaB, "")>>,
                     <<>>)],
      [ok |-> TRUE, page |-> Page(<<>>, <<>>, <<>>)],
      [ok |-> TRUE,
       page |-> Page(<<>>,
                     <<Elem({"main"}, <<>>, "Subscribe to read.\nAlready a member? Sign in", "")>>,
                     <<Img({}, "/logo.png", None, None, None, "")>>)],
      [ok |-> TRUE,
       page |-> Page(<<>>, <<>>, <<Img({}, "https://cdn.test/photos/big.jpg", None, None, "640", "")>>)],
      [ok |-> TRUE,
       page |-> Page(<<Meta(None, "twitter:image", "")>>, <<>>,
                     <<Img({"img.wp-post-image"}, "hero.jpg", None, None, "800", "")>>)] }

GoodResponse ==
    [ok |-> TRUE,
     page |-> Page(<<Meta("og:image", None, "https://cdn.test/photos/full.jpg")>>,
                   <<Elem({".article-body"}, <<ParaA, ParaB>>, ParaA \o "\n" \o ParaB, "")>>,
                   <<>>)]

Rewritten == "Harbour terminal to open next spring. #harbour #shipping"

WebhookUrl == "https://hooks.test/newsbot"

Run(feeds, table, page_response, rewritten, fault, webhook_url, include_original, post_ok) ==
    [env |-> [feeds |-> feeds, table |-> table, rewritten |-> rewritten,
              fault |-> fault, post_ok |-> post_ok],
     config |-> [webhook_url |-> webhook_url, include_original |-> include_original],
     response |-> page_response]

\* runs that vary in the feeds and the table
FeedRuns ==
    {Run(fs, t, GoodResponse, Rewritten, "none", WebhookUrl, FALSE, TRUE) :
        fs \in SeqsUpTo(FeedPool, MaxFeeds), t \in Tables}

\* runs on a new article that vary in its feed entry, in the page and in
\* whether update_article_content fails
ScrapeRuns ==
    {Run(<<Feed(<<e>>)>>, <<>>, r, Rewritten, f, WebhookUrl, FALSE, TRUE) :
        e \in NewEntries, r \in WorkflowResponses, f \in {"none", "update_article_content"}}

\* runs on a new article that vary in the table, the rewriting, the storage
\* fault and the delivery
DeliveryRuns ==
    {Run(<<Feed(<<NewEntry>>)>>, t, GoodResponse, w, f, u, o, ok) :
        t \in Tables,
        w \in {None, "", Rewritten},
        f \in {"none", "save_article", "update_article_content", "update_article_rewrite"},
        u \in {"", WebhookUrl},
        o \in BOOLEAN,
        ok \in BOOLEAN}

Runs == FeedRuns \cup ScrapeRuns \cup DeliveryRuns

\* a run begins: errors = [], new_count = 0, processed_count = 0
InitWorkflow ==
    \E r \in Runs :
        /\ env = r.env
        /\ config = r.config
        /\ response = r.response
        /\ articles = r.env.table
        /\ wpc = "check"
        /\ article = NoArticle
        /\ processing_log = <<>>
        /\ errors = <<>>
        /\ new_count = 0
        /\ processed_count = 0
        /\ scraped = [content |-> None, image_url |-> None]
        /\ rewrites = <<>>
        /\ ready_articles = <<>>
        /\ success = FALSE
        /\ posts = <<>>
        /\ files = <<>>
        /\ is_thumbnail = FALSE
        /\ TwitterIdle
        /\ pc = "idle"
        /\ article_url = ""
        /\ rss_image = None
        /\ soup = NoSoup
        /\ sel_i = 0
        /\ content = None
        /\ extracted_image = None
        /\ img_tier = "none"
        /\ result = EmptyResult

SpecWorkflow == InitWorkflow /\ [][NextWorkflow]_vars

(***************************************************************************)
(* Properties of run_workflow                                              *)
(***************************************************************************)
\* the feed entry step 1 looks at: the first entry of the first feed that has
\* entries
FeedsWithEntries == {k \in DOMAIN env.feeds : env.feeds[k].entries # <<>>}

TopmostEntry == env.feeds[FirstIndex(FeedsWithEntries)].entries[1]

\* the row of the article of this run
StoredRow == articles[CHOOSE k \in DOMAIN articles : articles[k].article_url = article.url]

\* the run saved its article and scrape_article has returned
Scraped == new_count = 1 /\ pc = "done" /\ wpc # "scraping"

\* step 2 is over and update_article_content was carried out
AfterStep2 ==
    /\ Scraped
    /\ wpc \in {"rewrite", "ready", "send", "save_file", "log", "returned"}
    /\ env.fault # "update_article_content"

\* the entry logged for the run
Logged == processing_log[Len(processing_log)]

\* C13 (as claimed): a run whose page request failed logs a scraping error.
C13_FetchFailureSurfaced ==
    (wpc = "returned" /\ Scraped /\ ~response.ok) => Contains(Logged.errors, "Scraping error")

\* C14: when scrape_article returns no content (None or empty, a failed
\* request included) the row's original content after step 2 is the content
\* of the feed entry if that is non-empty, else its summary; when it returns
\* content, the row holds that content.
C14_ContentFallback ==
    AfterStep2 =>
        /\ ~Truthy(result.content) =>
              StoredRow.original_content =
                  IF TopmostEntry.content \notin {None, ""} THEN TopmostEntry.content
                  ELSE TopmostEntry.summary
        /\ Truthy(result.content) => StoredRow.original_content = result.content

\* C14 witness: the request failed, the entry has a content element and a
\* different summary, and the row holds the content element.
C14_Witness ==
    /\ wpc = "returned"
    /\ AfterStep2
    /\ ~response.ok
    /\ TopmostEntry.content = FeedBody
    /\ TopmostEntry.summary = FeedSummary
    /\ StoredRow.original_content = FeedBody

\* C14 witness of the other branch: the page's text is stored, not the feed's.
C14_WitnessScraped ==
    /\ wpc = "returned"
    /\ AfterStep2
    /\ Truthy(result.content)
    /\ TopmostEntry.content = FeedBody
    /\ StoredRow.original_content = result.content
    /\ StoredRow.original_content # FeedBody

\* C15 (as claimed): when the page gave no image (no tier produced one, or the
\* request failed) and the feed entry has an image, the row's image after
\* step 2 is the feed image.
C15_ImageFallbackMerge ==
    (AfterStep2 /\ (~response.ok \/ img_tier = "none") /\ Truthy(article.rss_image))
        => StoredRow.image_url = article.rss_image

\* the rows that became ready during the run
MadeReady ==
    {k \in DOMAIN articles :
        /\ articles[k].status = "ready"
        /\ k > Len(env.table) \/ env.table[k].status # "ready"}

\* the articles handed to the webhook or written to a file
Delivered ==
    UNION {{posts[i][k].source_url : k \in DOMAIN posts[i]} : i \in DOMAIN posts}
        \cup UNION {{files[i][k].source_url : k \in DOMAIN files[i]} : i \in DOMAIN files}

\* C17: a run saves at most one new row, hands at most one row to the
\* rewriter, makes at most one row ready and delivers at most one article;
\* new_count and processed_count are 0 or 1 with processed_count <= new_count,
\* they count the rows saved and made ready, and they are what the run logs.
C17_OneArticlePerRun ==
    /\ Len(articles) = Len(env.table) + new_count
    /\ new_count \in {0, 1}
    /\ processed_count \in {0, 1}
    /\ processed_count <= new_count
    /\ Len(rewrites) <= 1
    /\ Cardinality(MadeReady) = processed_count
    /\ Len(ready_articles) <= 1
    /\ Cardinality(Delivered) <= 1
    /\ \A i \in DOMAIN posts : Len(posts[i]) <= 1
    /\ \A i \in DOMAIN files : Len(files[i]) <= 1
    /\ wpc = "returned" =>
          /\ Len(processing_log) = 1
          /\ Logged.new_articles = new_count
          /\ Logged.processed_articles = processed_count

\* C17 witness: the table held a ready row already; the run added one row,
\* made it ready and posted that one article.
C17_Witness ==
    /\ wpc = "returned"
    /\ \E k \in DOMAIN env.table : env.table[k].status = "ready"
    /\ new_count = 1 /\ processed_count = 1
    /\ Len(articles) = Len(env.table) + 1
    /\ posts # <<>>
    /\ Delivered = {article.url}

\* the case of the early exit: no feed has entries, or the topmost entry is
\* in the table when the run starts
NothingNew ==
    \/ FeedsWithEntries = {}
    \/ \E k \in DOMAIN env.table : env.table[k].article_url = TopmostEntry.link

\* C20: when no feed has articles or the topmost article is stored, the run
\* returns right after step 1: no scrape, no rewrite, no webhook call, no
\* file, the table as it was, and one log entry (0, 0, no errors).
C20_EarlyExit ==
    NothingNew =>
        /\ wpc \in {"check", "returned"}
        /\ pc = "idle" /\ result = [content |-> None, image_url |-> None]
        /\ rewrites = <<>>
        /\ posts = <<>>
        /\ files = <<>>
        /\ articles = env.table
        /\ errors = <<>>
        /\ wpc = "check" => processing_log = <<>>
        /\ wpc = "returned" => processing_log = <<LogEntry(0, 0, None)>>

\* C20 witness: the first feed's topmost article is stored, the second feed
\* has a new one; the run returned without touching anything.
C20_Witness ==
    /\ wpc = "returned"
    /\ Len(env.feeds) = 2
    /\ env.feeds[1].entries # <<>>
    /\ article_exists(env.table, env.feeds[1].entries[1].link)
    /\ env.feeds[2].entries # <<>>
    /\ ~article_exists(env.table, env.feeds[2].entries[1].link)
    /\ articles = env.table
    /\ processing_log = <<LogEntry(0, 0, None)>>

\* C20 witness of the run without articles in any feed.
C20_WitnessNoArticles ==
    /\ wpc = "returned"
    /\ env.feeds # <<>>
    /\ FeedsWithEntries = {}
    /\ processing_log = <<LogEntry(0, 0, None)>>

(***************************************************************************)
(* The output queue on its own: send_to_webhook, then save_to_file when it *)
(* returned False, on lists of rows                                        *)
(***************************************************************************)
\* the longest list of rows handed to the output queue
MaxArticles == 2

OutputRows == {OldRow(k) : k \in 1..(MaxArticles + 1)}

InitOutput ==
    /\ wpc = "send"
    /\ ready_articles \in SeqsUpTo(OutputRows, MaxArticles)
    /\ \E u \in {"", WebhookUrl}, o \in BOOLEAN :
          config = [webhook_url |-> u, include_original |-> o]
    /\ \E ok \in BOOLEAN : env = [NoEnv EXCEPT !.post_ok = ok]
    /\ article = NoArticle
    /\ articles = <<>>
    /\ processing_log = <<>>
    /\ errors = <<>>
    /\ new_count = 0
    /\ processed_count = 0
    /\ scraped = [content |-> None, image_url |-> None]
    /\ rewrites = <<>>
    /\ success = FALSE
    /\ posts = <<>>
    /\ files = <<>>
    /\ is_thumbnail = FALSE
    /\ TwitterIdle
    /\ pc = "idle"
    /\ article_url = ""
    /\ rss_image = None
    /\ response = [ok |-> FALSE, page |-> NoSoup]
    /\ soup = NoSoup
    /\ sel_i = 0
    /\ content = None
    /\ extracted_image = None
    /\ img_tier = "none"
    /\ result = EmptyResult

NextOutput == SendToWebhook \/ SaveToFile

SpecOutput == InitOutput /\ [][NextOutput]_vars

OutputFields ==
    {"id", "title", "rewritten_text", "image_url", "source_url", "feed_name",
     "published_date", "processed_at", "ready_for_posting"}

\* the object the output is to hold for a row
Shaped(item, row) ==
    /\ DOMAIN item = OutputFields \cup (IF config.include_original THEN {"original"} ELSE {})
    /\ item.id = row.id
    /\ item.title = row.title
    /\ item.rewritten_text = row.rewritten_content
    /\ item.image_url = row.image_url
    /\ item.source_url = row.article_url
    /\ item.feed_name = row.feed_name
    /\ item.published_date = row.published_date
    /\ item.processed_at = row.processed_at
    /\ item.ready_for_posting = TRUE
    /\ config.include_original =>
          item.original = [title |-> row.title, content |-> row.original_content]

ShapedArray(items) ==
    /\ Len(items) = Len(ready_articles)
    /\ \A k \in DOMAIN items : Shaped(items[k], ready_articles[k])

\* C16: the array generate_output builds has one object per row, in the
\* rows' order, with the nine fields mapped from the row (rewritten_content
\* as rewritten_text, article_url as source_url), ready_for_posting true, and
\* the field original exactly when include_original is set; every webhook
\* body and every file written is this array; with a webhook URL and rows the
\* array is posted, and whenever the post did not succeed a file is written.
C16_OutputShape ==
    /\ ShapedArray(generate_output(ready_articles))
    /\ \A i \in DOMAIN posts : posts[i] = generate_output(ready_articles)
    /\ \A i \in DOMAIN files : files[i] = generate_output(ready_articles)
    /\ wpc = "log" =>
          /\ success <=> (posts # <<>> /\ env.post_ok)
          /\ posts # <<>> <=> (Truthy(config.webhook_url) /\ ready_articles # <<>>)
          /\ ~success => files # <<>>

\* C16 witness: two rows, include_original set, the post failed; the body
\* posted and the files written hold the same two objects in the rows' order.
C16_Witness ==
    /\ wpc = "log"
    /\ config.include_original
    /\ Len(ready_articles) = 2
    /\ ready_articles[1].id > ready_articles[2].id
    /\ Len(posts) = 1 /\ ~success
    /\ files # <<>>
    /\ posts[1][1].source_url = ready_articles[1].article_url
    /\ posts[1][2].rewritten_text = ready_articles[2].rewritten_content
    /\ files[1] = posts[1]

(***************************************************************************)
(* _is_thumbnail_url on its own                                            *)
(***************************************************************************)
\* the directory of the image: none, the listed width and height segments,
\* one in capitals, other widths and heights, the generic directories, one in
\* mixed case, a directory that only begins with w
UrlSegments ==
    { "/", "/w150/", "/w200/", "/w300/", "/h150/", "/h200/", "/h300/", "/W150/",
      "/w100/", "/w50/", "/h90/", "/w640/", "/thumb/", "/thumbs/", "/small/",
      "/preview/", "/Preview/", "/wide/" }

\* the end of the file name: none, dimension suffixes listed and not listed,
\* the generic markers, one in capitals, another word
UrlSuffixes ==
    { "", "-150x150", "-200x", "-300x200", "-640x480", "_thumb", "_small", "_tiny",
      "_THUMB", "_large" }

\* the query: none, the listed resize markers, one in capitals, another width
UrlQueries == { "", "?resize=640", "?width=150", "?width=200", "?WIDTH=150", "?width=800" }

ThumbnailInputs ==
    {None, ""}
        \cup {"https://cdn.test/img" \o seg \o "photo" \o suf \o ".jpg" \o q :
                seg \in UrlSegments, suf \in UrlSuffixes, q \in UrlQueries}

InitThumbnail ==
    /\ pc = "classify"
    /\ rss_image \in ThumbnailInputs
    /\ is_thumbnail = FALSE
    /\ TwitterIdle
    /\ article_url = ""
    /\ response = [ok |-> FALSE, page |-> NoSoup]
    /\ soup = NoSoup
    /\ sel_i = 0
    /\ content = None
    /\ extracted_image = None
    /\ img_tier = "none"
    /\ result = EmptyResult
    /\ WorkflowIdle

\* self._is_thumbnail_url(rss_image), as called at line 50
Classify ==
    /\ pc = "classify"
    /\ is_thumbnail' = _is_thumbnail_url(rss_image)
    /\ pc' = "classified"
    /\ UNCHANGED <<article_url, rss_image, response, soup, sel_i, content,
                   extracted_image, img_tier, result>>
    /\ UNCHANGED <<workflow_vars, twitter_vars>>

NextThumbnail == Classify

SpecThumbnail == InitThumbnail /\ [][NextThumbnail]_vars

\* url has a path element that is w or h followed by an integer of up to
\* three digits, in either letter case
HasSizeSegment(url) ==
    LET lowered == Lower(url)
    IN  \E i \in 1..Len(lowered) :
           /\ Char(lowered, i) = "/"
           /\ i + 1 <= Len(lowered) /\ Char(lowered, i + 1) \in {"w", "h"}
           /\ DigitRun(lowered, i + 2) \in 1..3
           /\ i + 2 + DigitRun(lowered, i + 2) <= Len(lowered)
           /\ Char(lowered, i + 2 + DigitRun(lowered, i + 2)) = "/"

\* url has one of the other markers of the claim, in either letter case
HasOtherMarker(url) ==
    LET lowered == Lower(url)
    IN  \E m \in { "-150x", "-200x", "-300x", "_thumb", "_small", "_tiny", "/thumb/",
                   "/thumbs/", "/small/", "/preview/", "resize=", "width=150", "width=200" } :
           Contains(lowered, m)

\* C18 (as claimed): _is_thumbnail_url is true exactly for a non-empty URL
\* with a width or height path element (w or h followed by a small integer),
\* a dimension suffix -150x, -200x or -300x, a generic marker or a query
\* resize marker, whatever the letter case, and false for every other URL,
\* the empty one included.
C18_ThumbnailClassification ==
    pc = "classified" =>
        (is_thumbnail <=> (Truthy(rss_image) /\ (HasSizeSegment(rss_image) \/ HasOtherMarker(rss_image))))

\* what the code does, for comparison: only the six listed segments count
ListedSizeSegment(url) ==
    LET lowered == Lower(url)
    IN  \E m \in {"/w150/", "/w200/", "/w300/", "/h150/", "/h200/", "/h300/"} :
           Contains(lowered, m)

ThumbnailAsListed ==
    pc = "classified" =>
        (is_thumbnail <=> (Truthy(rss_image) /\ (ListedSizeSegment(rss_image) \/ HasOtherMarker(rss_image))))

(***************************************************************************)
(* Delivery and the log of a run                                           *)
(***************************************************************************)
\* C23: in step 4 with a ready article, a successful POST writes no backup
\* file; without a webhook, or when the POST fails (a request error or an
\* HTTP error status, both a RequestException), the payload is saved to a
\* backup file exactly once in the run.
C23_BackupExactlyOnce ==
    (wpc \in {"log", "returned"} /\ ready_articles # <<>>) =>
        IF success THEN files = <<>> ELSE Len(files) = 1

\* C26: a run_workflow call that has returned has appended exactly one row
\* to processing_log (none before it returns), on the early exit, on the full
\* path and when a step failed; the row carries the counts of the run, and
\* its error text is empty exactly when no step recorded an error.
C26_OneLogEntryPerRun ==
    /\ wpc \in {"check", "save", "scrape", "scraping", "update", "rewrite", "ready",
                "send", "save_file", "log"} => processing_log = <<>>
    /\ wpc = "returned" =>
          /\ Len(processing_log) = 1
          /\ processing_log[1].new_articles = new_count
          /\ processing_log[1].processed_articles = processed_count
          /\ (processing_log[1].errors = None) <=> (errors = <<>>)
          /\ errors # <<>> => processing_log[1].errors = Join("; ", errors)

\* a run on a new article that recorded an error has returned
C26_Witness ==
    /\ wpc = "returned"
    /\ new_count = 1
    /\ errors # <<>>
    /\ Len(processing_log) = 1
    /\ processing_log[1].errors # None

\* a run has returned through the early exit
C26_WitnessEarlyExit ==
    /\ wpc = "returned"
    /\ article = NoArticle
    /\ processing_log = <<LogEntry(0, 0, None)>>

(***************************************************************************)
(* run_continuously: run_workflow is called again and again on the         *)
(* schedule (main.py lines 162-178), on the same database.  Every run sees *)
(* the feeds and the rewriting service as they are at that time; the       *)
(* webhook and the page the article URLs answer with stay as they are.     *)
(* processing_log, posts, files and rewrites hold what the current run     *)
(* has written; the articles table is the state that runs share.           *)
(***************************************************************************)
StoryA1 == Entry("https://news.test/a/1", FeedBody, FeedSummary, "")
StoryA2 == Entry("https://news.test/a/2", None, FeedSummary, "")
StoryB1 == Entry("https://coast.test/b/1", FeedBody, FeedSummary, "")

StoryUrls == {StoryA1.link, StoryA2.link, StoryB1.link}

\* the two enabled feeds of config['rss_feeds'], in their order
FeedNamed(name, entries) == [name |-> name, entries |-> entries]

\* what the two feeds can give at the time of a run: the first feed is empty
\* or has its first or its second story on top; the second feed is empty or
\* has its story
ServiceFeeds ==
    {<<FeedNamed("Harbour News", a), FeedNamed("Coast Wire", b)>> :
        a \in {<<>>, <<StoryA1>>, <<StoryA2, StoryA1>>},
        b \in {<<>>, <<StoryB1>>}}

\* the page every article URL answers with: the request fails, or a page
\* without article text whose only img tag has no source
ServiceResponses ==
    { [ok |-> FALSE, page |-> NoSoup],
      [ok |-> TRUE,
       page |-> Page(<<>>, <<>>, <<Img({}, None, None, None, None, "")>>)] }

\* what a run is given: the feeds and the answer of the rewriting service
ServiceEnv(feeds, table, rewritten) ==
    [feeds |-> feeds, table |-> table, rewritten |-> rewritten,
     fault |-> "none", post_ok |-> TRUE]

\* the bot starts on an empty database and makes its first run (line 165)
InitRuns ==
    /\ \E fs \in ServiceFeeds, w \in {None, Rewritten} : env = ServiceEnv(fs, <<>>, w)
    /\ \E u \in {"", WebhookUrl} : config = [webhook_url |-> u, include_original |-> FALSE]
    /\ response \in ServiceResponses
    /\ articles = <<>>
    /\ wpc = "check"
    /\ article = NoArticle
    /\ processing_log = <<>>
    /\ errors = <<>>
    /\ new_count = 0
    /\ processed_count = 0
    /\ scraped = [content |-> None, image_url |-> None]
    /\ rewrites = <<>>
    /\ ready_articles = <<>>
    /\ success = FALSE
    /\ posts = <<>>
    /\ files = <<>>
    /\ is_thumbnail = FALSE
    /\ TwitterIdle
    /\ pc = "idle"
    /\ article_url = ""
    /\ rss_image = None
    /\ soup = NoSoup
    /\ sel_i = 0
    /\ content = None
    /\ extracted_image = None
    /\ img_tier = "none"
    /\ result = EmptyResult

\* schedule.run_pending() calls run_workflow again (lines 168, 175): the
\* locals of the run start afresh (lines 51-53), the table stays
StartRun ==
    /\ wpc = "returned"
    /\ \E fs \in ServiceFeeds, w \in {None, Rewritten} : env' = ServiceEnv(fs, articles, w)
    /\ wpc' = "check"
    /\ article' = NoArticle
    /\ errors' = <<>>
    /\ new_count' = 0
    /\ processed_count' = 0
    /\ scraped' = [content |-> None, image_url |-> None]
    /\ ready_articles' = <<>>
    /\ success' = FALSE
    /\ processing_log' = <<>>
    /\ rewrites' = <<>>
    /\ posts' = <<>>
    /\ files' = <<>>
    /\ pc' = "idle"
    /\ article_url' = ""
    /\ rss_image' = None
    /\ soup' = NoSoup
    /\ sel_i' = 0
    /\ content' = None
    /\ extracted_image' = None
    /\ img_tier' = "none"
    /\ result' = EmptyResult
    /\ UNCHANGED <<config, articles, response, is_thumbnail, twitter_vars>>

NextRuns == NextWorkflow \/ StartRun

\* the schedule keeps calling run_workflow, and every call runs to its end
SpecRuns == InitRuns /\ [][NextRuns]_vars /\ WF_vars(NextRuns)

(***************************************************************************)
(* Properties over the runs of the service                                 *)
(***************************************************************************)
\* C21 (as claimed): whatever a run hands to the webhook or writes to a
\* backup file is an article the same run has rewritten; a run whose rewrite
\* failed delivers nothing.
C21_NoRepeatedDelivery ==
    Delivered \subseteq {articles[k].article_url : k \in MadeReady}

\* the article is in the table and waits for the rewriter
Pending(url) ==
    \E k \in DOMAIN articles :
        articles[k].article_url = url /\ articles[k].status = "pending"

\* the rewriter has succeeded since the article was saved: some row was
\* rewritten after it.  Step 3 of the run that saves an article takes that
\* article, the newest pending one, so the later rewriting is a later run's.
RewrittenSince(url) ==
    \E k, j \in DOMAIN articles :
        /\ articles[k].article_url = url
        /\ articles[j].status = "ready"
        /\ articles[j].processed_at > articles[k].created_at

\* C22 (as claimed): an article saved as pending becomes ready at some time,
\* provided the rewriter succeeds in a later run: no article stays pending
\* for ever once the rewriter has succeeded after the run that saved it.
C22_EventualRewrite ==
    \A url \in StoryUrls : []<>(~(Pending(url) /\ RewrittenSince(url)))

\* the article is on top of one of the enabled feeds and is not in the table
Offered(url) ==
    /\ \E k \in DOMAIN env.feeds :
          env.feeds[k].entries # <<>> /\ env.feeds[k].entries[1].link = url
    /\ ~article_exists(articles, url)

\* C25 (as claimed): no article stays on top of an enabled feed for ever
\* without being returned by check_topmost_article and stored, whatever the
\* feeds before it in the list give.
C25_EveryFeedServed ==
    \A url \in StoryUrls : []<>(~Offered(url))

(***************************************************************************)
(* The articles table under the calls of ArticleStorage, in any order and  *)
(* on any row.  update_article_rewrite gets a non-empty text, as at its    *)
(* one call site (main.py lines 115-116).                                  *)
(***************************************************************************)
\* CURRENT_TIMESTAMP stays below this
MaxClock == 4

\* the article dicts save_article is called with
StorageArticles ==
    {fetch_feed(FeedNamed("Harbour News", <<e>>))[1] : e \in {StoryA1, StoryA2, StoryB1}}

\* the article_url arguments: the stories, and one that is never saved
StorageUrls == StoryUrls \cup {"https://news.test/never-saved"}

StorageTexts == {"", "Full text of the article."}

StorageImages == {None, "https://cdn.test/photos/full.jpg"}

InitStorage ==
    /\ wpc = "storage"
    /\ articles = <<>>
    /\ env = NoEnv
    /\ config = NoConfig
    /\ article = NoArticle
    /\ processing_log = <<>>
    /\ errors = <<>>
    /\ new_count = 0
    /\ processed_count = 0
    /\ scraped = [content |-> None, image_url |-> None]
    /\ rewrites = <<>>
    /\ ready_articles = <<>>
    /\ success = FALSE
    /\ posts = <<>>
    /\ files = <<>>
    /\ is_thumbnail = FALSE
    /\ TwitterIdle
    /\ pc = "idle"
    /\ article_url = ""
    /\ rss_image = None
    /\ response = [ok |-> FALSE, page |-> NoSoup]
    /\ soup = NoSoup
    /\ sel_i = 0
    /\ content = None
    /\ extracted_image = None
    /\ img_tier = "none"
    /\ result = EmptyResult

\* everything but the table
outside_storage ==
    <<wpc, env, config, article, processing_log, errors, new_count, processed_count,
      scraped, rewrites, ready_articles, success, posts, files, is_thumbnail, scraper_vars,
      response, twitter_vars>>

\* storage.save_article(article_data)
StorageSave ==
    /\ wpc = "storage"
    /\ Clock(articles) <= MaxClock
    /\ \E article_data \in StorageArticles : articles' = save_article(articles, article_data)
    /\ UNCHANGED outside_storage

\* storage.update_article_content(article_url, content, image_url)
StorageUpdateContent ==
    /\ wpc = "storage"
    /\ \E url \in StorageUrls, text \in StorageTexts, image_url \in StorageImages :
          articles' = update_article_content(articles, url, text, image_url)
    /\ UNCHANGED outside_storage

\* storage.update_article_image(article_url, image_url)
StorageUpdateImage ==
    /\ wpc = "storage"
    /\ \E url \in StorageUrls, image_url \in StorageImages :
          articles' = update_article_image(articles, url, image_url)
    /\ UNCHANGED outside_storage

\* storage.update_article_rewrite(article_url, rewritten)
StorageUpdateRewrite ==
    /\ wpc = "storage"
    /\ Clock(articles) <= MaxClock
    /\ \E url \in StorageUrls :
          articles' = update_article_rewrite(articles, url, Rewritten)
    /\ UNCHANGED outside_storage

NextStorage ==
    \/ StorageSave
    \/ StorageUpdateContent
    \/ StorageUpdateImage
    \/ StorageUpdateRewrite

SpecStorage == InitStorage /\ [][NextStorage]_vars

\* the rows of the table are well-formed
LifecycleState ==
    /\ \A k, j \in DOMAIN articles :
          articles[k].article_url = articles[j].article_url => k = j
    /\ \A k \in DOMAIN articles :
          /\ articles[k].status \in {"pending", "ready"}
          /\ articles[k].status = "ready" <=>
                (Truthy(articles[k].rewritten_content) /\ articles[k].processed_at # 0)

\* a step keeps every ready row ready and its rewritten text in place
LifecycleStep ==
    \A k \in DOMAIN articles :
        articles[k].status = "ready" =>
            /\ k \in DOMAIN articles'
            /\ articles'[k].article_url = articles[k].article_url
            /\ articles'[k].status = "ready"
            /\ Truthy(articles'[k].rewritten_content)

\* C24: in every reachable state of the table each article_url has at most
\* one row, a row is pending or ready, and it is ready exactly when its
\* rewritten_content is non-empty and its processed_at is set; no call of
\* save_article, update_article_content, update_article_image or
\* update_article_rewrite moves a ready row back to pending or clears its
\* rewritten_content.
C24_StatusLifecycle == [](LifecycleState) /\ [][LifecycleStep]_vars

\* C24 witness: a row is ready, its content and image were updated, and an
\* article was saved after it became ready.
C24_Witness ==
    \E k, j \in DOMAIN articles :
        /\ articles[k].status = "ready"
        /\ articles[k].original_content = "Full text of the article."
        /\ articles[k].image_url = "https://cdn.test/photos/full.jpg"
        /\ articles[j].status = "pending"
        /\ articles[j].created_at > articles[k].processed_at

(***************************************************************************)
(* The Twitter client: src/src/twitter_client.py                           *)
(*                                                                         *)
(* An endpoint's answer to a POST is either an exception raised by         *)
(* session.post, or a response: its status code, whether its body parses   *)
(* as JSON, and the fields of the body the client reads.  An endpoint has  *)
(* created the tweet exactly when it answers with its success status (201  *)
(* for v2, 200 for v1.1), and such an answer carries a JSON object.        *)
(***************************************************************************)
TWEET_ENDPOINT == "https://api.twitter.com/1.1/statuses/update.json"

TWEET_V2_ENDPOINT == "https://api.twitter.com/2/tweets"

\* the length above which post_tweet shortens the text
TweetLimit == 280

\* the number of characters kept before the "..."
TweetKept == 277

\* session.post raised
Raises(message) ==
    [raises |-> TRUE, message |-> message, status_code |-> 0, is_json |-> FALSE,
     id |-> None, detail |-> None, title |-> None, errors |-> <<>>, str |-> None]

\* a response whose body is a JSON object: data.id (v2) or id (v1.1), detail,
\* title, the messages of errors, and str() of the object
Json(status_code, id, detail, title, messages, str) ==
    [raises |-> FALSE, message |-> None, status_code |-> status_code, is_json |-> TRUE,
     id |-> id, detail |-> detail, title |-> title, errors |-> messages, str |-> str]

\* a response whose body is not JSON: response.json() raises
NotJson(status_code) ==
    [raises |-> FALSE, message |-> "Expecting value: line 1 column 1 (char 0)",
     status_code |-> status_code, is_json |-> FALSE,
     id |-> None, detail |-> None, title |-> None, errors |-> <<>>, str |-> None]

\* the dict an attempt returns; a key the dict lacks is None
Result(ok, tweet_id, error) == [ok |-> ok, tweet_id |-> tweet_id, error |-> error]

\* str(v) of an optional string
PyStr(v) == IF v = None THEN "None" ELSE v

\* is_configured(): all four credentials are non-empty
is_configured(api_key, api_secret, access_token, access_secret) ==
    api_key # "" /\ api_secret # "" /\ access_token # "" /\ access_secret # ""

\* lines 69-71
Truncate(text) ==
    IF Len(text) > TweetLimit THEN SubSeq(text, 1, TweetKept) \o "..." ELSE text

\* _post_tweet_v2 on the answer of the v2 endpoint
_post_tweet_v2(answer) ==
    IF answer.raises \/ ~answer.is_json
    THEN Result(FALSE, None, "v2 API exception: " \o answer.message)
    ELSE IF answer.status_code = 201
    THEN Result(TRUE, answer.id, None)
    ELSE Result(FALSE, None,
                "v2 API error (" \o ToString(answer.status_code) \o "): "
                    \o Or3(answer.detail, answer.title, answer.str))

\* _post_tweet_v1 on the answer of the v1.1 endpoint
_post_tweet_v1(answer) ==
    IF answer.raises \/ ~answer.is_json
    THEN Result(FALSE, None, "v1.1 API exception: " \o answer.message)
    ELSE IF answer.status_code = 200
    THEN Result(TRUE, PyStr(answer.id), None)
    ELSE Result(FALSE, None,
                "v1.1 API error (" \o ToString(answer.status_code) \o "): "
                    \o (IF answer.errors # <<>> THEN answer.errors[1] ELSE answer.str))

\* faulty variant: the result of the v2 attempt is never accepted
AcceptedNever(response_v2) == FALSE

\* line 76: if response.get("ok")
Accepted(response_v2) == response_v2.ok

RECURSIVE Repeat(_, _)
Repeat(s, n) == IF n = 0 THEN "" ELSE s \o Repeat(s, n - 1)

\* the texts post_tweet is called with: a short one, one of 280 characters
\* and one of 281
TweetTexts ==
    {"Harbour reopens after storm. https://news.test/a/1",
     Repeat("abcdefghij", 28),
     Repeat("abcdefghij", 28) \o "k"}

\* the environments of the process: the four credentials
Credentials ==
    {<<"key", "secret", "token", "token-secret">>,
     <<"key", "secret", "token", "">>,
     <<"", "", "", "">>}

V2Answers ==
    {Json(201, "1001", None, None, <<>>, "{'data': {'id': '1001'}}"),
     Json(201, None, None, None, <<>>, "{}"),
     Json(403, None, "You are not permitted to perform this action.", "Forbidden", <<>>,
          "{'detail': 'You are not permitted to perform this action.', 'title': 'Forbidden'}"),
     Json(429, None, None, "Too Many Requests", <<>>, "{'title': 'Too Many Requests'}"),
     Json(500, None, None, None, <<>>, "{}"),
     NotJson(502),
     Raises("Connection aborted.")}

V1Answers ==
    {Json(200, "1002", None, None, <<>>, "{'id': 1002}"),
     Json(200, None, None, None, <<>>, "{}"),
     Json(401, None, None, None, <<"Could not authenticate you.">>,
          "{'errors': [{'code': 32, 'message': 'Could not authenticate you.'}]}"),
     Json(500, None, None, None, <<>>, "{}"),
     NotJson(502),
     Raises("Connection aborted.")}

\* TwitterClient() followed by the call post_tweet(text)
InitTwitter ==
    /\ tpc = "start"
    /\ \E c \in Credentials : session = is_configured(c[1], c[2], c[3], c[4])
    /\ tweet_text \in TweetTexts
    /\ api \in [v2 : V2Answers, v1 : V1Answers]
    /\ requests = <<>>
    /\ tweet_result = None
    /\ wpc = "idle"
    /\ articles = <<>>
    /\ env = NoEnv
    /\ config = NoConfig
    /\ article = NoArticle
    /\ processing_log = <<>>
    /\ errors = <<>>
    /\ new_count = 0
    /\ processed_count = 0
    /\ scraped = [content |-> None, image_url |-> None]
    /\ rewrites = <<>>
    /\ ready_articles = <<>>
    /\ success = FALSE
    /\ posts = <<>>
    /\ files = <<>>
    /\ is_thumbnail = FALSE
    /\ pc = "idle"
    /\ article_url = ""
    /\ rss_image = None
    /\ response = [ok |-> FALSE, page |-> NoSoup]
    /\ soup = NoSoup
    /\ sel_i = 0
    /\ content = None
    /\ extracted_image = None
    /\ img_tier = "none"
    /\ result = EmptyResult

\* everything but the variables of the Twitter client
outside_twitter == <<is_thumbnail, workflow_vars, scraper_vars>>

\* lines 64-71: the unconfigured client returns; the text is shortened
PostTweet ==
    /\ tpc = "start"
    /\ IF ~session
       THEN /\ tweet_result' = Result(FALSE, None, "Twitter client not configured")
            /\ tpc' = "done"
            /\ UNCHANGED tweet_text
       ELSE /\ tweet_text' = Truncate(tweet_text)
            /\ tpc' = "v2"
            /\ UNCHANGED tweet_result
    /\ UNCHANGED <<session, api, requests>>
    /\ UNCHANGED outside_twitter

\* lines 75-77 with _post_tweet_v2 (87-105)
PostTweetV2 ==
    /\ tpc = "v2"
    /\ LET response_v2 == _post_tweet_v2(api.v2) IN
          /\ requests' = Append(requests, [endpoint |-> TWEET_V2_ENDPOINT,
                                           text |-> tweet_text,
                                           returned |-> response_v2])
          /\ IF Accepted(response_v2)
             THEN tweet_result' = response_v2 /\ tpc' = "done"
             ELSE tpc' = "v1" /\ UNCHANGED tweet_result
    /\ UNCHANGED <<session, tweet_text, api>>
    /\ UNCHANGED outside_twitter

\* line 81 with _post_tweet_v1 (107-126)
PostTweetV1 ==
    /\ tpc = "v1"
    /\ LET response_v1 == _post_tweet_v1(api.v1) IN
          /\ requests' = Append(requests, [endpoint |-> TWEET_ENDPOINT,
                                           text |-> tweet_text,
                                           returned |-> response_v1])
          /\ tweet_result' = response_v1
    /\ tpc' = "done"
    /\ UNCHANGED <<session, tweet_text, api>>
    /\ UNCHANGED outside_twitter

NextTwitter == PostTweet \/ PostTweetV2 \/ PostTweetV1

SpecTwitter == InitTwitter /\ [][NextTwitter]_vars

\* the requests of the call by which an endpoint created a tweet
TweetsCreated ==
    {i \in DOMAIN requests :
        LET answer == IF requests[i].endpoint = TWEET_V2_ENDPOINT THEN api.v2 ELSE api.v1
        IN  /\ ~answer.raises
            /\ answer.status_code =
                   (IF requests[i].endpoint = TWEET_V2_ENDPOINT THEN 201 ELSE 200)}

C27_WitnessV2 ==
    /\ tpc = "done"
    /\ Len(requests) = 1
    /\ api.v1.status_code = 200
    /\ tweet_result = Result(TRUE, "1001", None)

====
